---- MODULE Spec2Model ----
(***************************************************************************)
(* Model of the job-tracker backend: the optimistic-concurrency protocol   *)
(* of the applications / activities / reminders services, the HTTP routers *)
(* in front of them, the cursor pagination of the applications list and    *)
(* the reminder engine with its periodic scan.                             *)
(*                                                                         *)
(* A table is a function from primary keys to rows; a missing key is a row *)
(* that does not exist.  Timestamps are integer ticks of the clock `now`.  *)
(* Header values and cursors are sequences of one-character strings so     *)
(* that parsing and formatting are computed, not assumed.                  *)
(***************************************************************************)
EXTENDS Integers, Sequences, FiniteSets, TLC

VARIABLES
    db,        \* committed database: db.applications, db.activities, db.reminders
    now,       \* wall clock, in ticks
    last,      \* the request handled by the latest step and its response
    sessions,  \* in-flight writers: the ORM object each one loaded
    pager,     \* a client following the next_cursor chain
    engine,    \* reminder engine: user settings, mail handed off, scans
    auth       \* verification codes and the verify requests in flight

vars == <<db, now, last, sessions, pager, engine, auth>>

----------------------------------------------------------------------------
(* Bounds of the model *)

MaxVersion == 2
MaxTime == 1

Users == {"A", "B"}
AppIds == {1}
ActIds == {1}
RemIds == {1}
PageAppIds == {1, 2, 3, 4}
AppParams == {1, 2}
SessionIds == {1, 2}

\* Reminder engine: ticks per day, last instant of a scan, the configured
\* batch cap (scaled down), failing commits, reminders and scanning workers
DayTicks == 4
MaxScanTime == 6
REMINDER_DISPATCH_BATCH_SIZE == 1
MaxFailures == 1
ScanRemIds == {1, 2}
Workers == {1, 2}

NULL == -1
None == <<"None">>

Kinds == {"applications", "activities", "reminders"}

Ids(kind) ==
    IF kind = "applications" THEN AppIds
    ELSE IF kind = "activities" THEN ActIds ELSE RemIds

----------------------------------------------------------------------------
(* Text helpers: characters are one-character strings *)

DigitChars == <<"0", "1", "2", "3", "4", "5", "6", "7", "8", "9">>

IsDigit(c) == \E i \in 1..10 : DigitChars[i] = c

DigitVal(c) == (CHOOSE i \in 1..10 : DigitChars[i] = c) - 1

RECURSIVE IntToStr(_)
IntToStr(n) ==
    IF n < 10 THEN <<DigitChars[n + 1]>>
    ELSE IntToStr(n \div 10) \o <<DigitChars[(n % 10) + 1]>>

RECURSIVE LStrip(_, _)
LStrip(s, chars) ==
    IF s # <<>> /\ Head(s) \in chars THEN LStrip(Tail(s), chars) ELSE s

RECURSIVE RStrip(_, _)
RStrip(s, chars) ==
    IF s # <<>> /\ s[Len(s)] \in chars
    THEN RStrip(SubSeq(s, 1, Len(s) - 1), chars) ELSE s

Strip(s, chars) == RStrip(LStrip(s, chars), chars)

Whitespace == {" "}

StartsWith(s, prefix) ==
    Len(s) >= Len(prefix) /\ SubSeq(s, 1, Len(prefix)) = prefix

RECURSIVE DigitsValue(_)
DigitsValue(s) ==
    IF s = <<>> THEN 0
    ELSE 10 * DigitsValue(SubSeq(s, 1, Len(s) - 1)) + DigitVal(s[Len(s)])

RECURSIVE Ungrouped(_)
Ungrouped(s) ==
    IF s = <<>> THEN <<>>
    ELSE IF Head(s) = "_" THEN Ungrouped(Tail(s))
    ELSE <<Head(s)>> \o Ungrouped(Tail(s))

WellGrouped(s) ==
    \A i \in 1..Len(s) :
        s[i] = "_" => i > 1 /\ i < Len(s) /\ IsDigit(s[i - 1]) /\ IsDigit(s[i + 1])

\* Python int(str): surrounding whitespace, an optional sign, decimal digits
\* with single underscores allowed between them.
IntOfStr(s) ==
    LET t == Strip(s, Whitespace)
        signed == t # <<>> /\ Head(t) \in {"+", "-"}
        grouped == IF signed THEN Tail(t) ELSE t
        digits == Ungrouped(grouped)
    IN IF digits = <<>> \/ ~WellGrouped(grouped)
          \/ \E i \in 1..Len(digits) : ~IsDigit(digits[i])
       THEN [ok |-> FALSE, value |-> 0]
       ELSE [ok |-> TRUE,
             value |-> IF signed /\ Head(t) = "-"
                       THEN 0 - DigitsValue(digits) ELSE DigitsValue(digits)]

----------------------------------------------------------------------------
(* Errors: src/core/exceptions.py *)

Problem(status, title, detail, resource, id, current_version) ==
    [status |-> status, title |-> title, detail |-> detail,
     resource |-> resource, id |-> id, current_version |-> current_version]

NotFoundError(detail, resource, id) ==
    Problem(404, "Resource Not Found", detail, resource, id, NULL)

InvalidRequestError(detail) ==
    Problem(400, "Invalid Request", detail, "", NULL, NULL)

VersionConflict(resource, id, current_version) ==
    Problem(409, "Version Conflict",
            "Row version does not match If-Match header.",
            resource, id, current_version)

\* Any exception that is not an ApplicationError (IntegrityError or
\* StaleDataError out of commit) reaches the catch-all handler.
unexpected_exception_handler ==
    Problem(500, "Unexpected Error",
            "Something went wrong. We're looking into it.", "", NULL, NULL)

Ok(status, resource, id, version) ==
    Problem(status, "", "", resource, id, version)

----------------------------------------------------------------------------
(* Precondition token *)

\* applications/router.py _set_etag: W/"<version>"
_set_etag(version) == <<"W", "/", "\"">> \o IntToStr(version) \o <<"\"">>

\* Variant: a missing header is read as "no precondition on a fresh row".
parse_if_match_optional(version) ==
    IF version = None \/ version = <<>>
    THEN [ok |-> TRUE, value |-> 1, detail |-> ""]
    ELSE
      LET candidate == Strip(version, Whitespace \cup {"W", "/", "\""})
          parsed == IntOfStr(candidate)
      IN IF ~parsed.ok
         THEN [ok |-> FALSE, value |-> 0, detail |-> "If-Match header is invalid."]
         ELSE [ok |-> TRUE, value |-> parsed.value, detail |-> ""]

\* if candidate.startswith("W/"): candidate = candidate[2:].strip()
strip_weak(candidate) ==
    IF StartsWith(candidate, <<"W", "/">>)
    THEN Strip(SubSeq(candidate, 3, Len(candidate)), Whitespace)
    ELSE candidate

\* Variant: the sign of the parsed number is not tested.
checked_int_any_sign(parsed) ==
    IF ~parsed.ok
    THEN [ok |-> FALSE, value |-> 0, detail |-> "If-Match header is invalid."]
    ELSE [ok |-> TRUE, value |-> parsed.value, detail |-> ""]

\* int(candidate), then the sign test
checked_int(parsed) ==
    IF ~parsed.ok
    THEN [ok |-> FALSE, value |-> 0, detail |-> "If-Match header is invalid."]
    ELSE IF parsed.value < 0
    THEN [ok |-> FALSE, value |-> 0,
          detail |-> "If-Match header must be a positive integer."]
    ELSE [ok |-> TRUE, value |-> parsed.value, detail |-> ""]

parse_if_match(version) ==
    IF version = None \/ version = <<>>
    THEN [ok |-> FALSE, value |-> 0, detail |-> "If-Match header is required."]
    ELSE checked_int(IntOfStr(Strip(strip_weak(Strip(version, Whitespace)),
                                    {"\""})))

\* src/activities/utils.py and src/reminders/utils.py
activities_parse_if_match(version) == parse_if_match(version)

reminders_parse_if_match(version) == parse_if_match(version)

ParseIfMatch(kind, version) ==
    IF kind = "applications" THEN parse_if_match(version)
    ELSE IF kind = "activities" THEN activities_parse_if_match(version)
    ELSE reminders_parse_if_match(version)

----------------------------------------------------------------------------
(* Storage: rows, defaults, constraints, cascades *)

EmptyDb == [applications |-> <<>>, activities |-> <<>>, reminders |-> <<>>]

NotFoundDetail(kind) ==
    IF kind = "applications" THEN "Application not found."
    ELSE IF kind = "activities" THEN "Activity not found."
    ELSE "Reminder not found."

\* ActivityStatus members, as numbers
SCHEDULED == 1
DONE == 2

\* Column defaults of a new row (models.py, db/base.py).
Application(user_id, t) ==
    [user_id |-> user_id, salary_min |-> NULL, salary_max |-> NULL,
     version |-> 1, created_at |-> t, updated_at |-> t]

Activity(user_id, application_id, t) ==
    [user_id |-> user_id, application_id |-> application_id,
     status |-> SCHEDULED, starts_at |-> NULL,
     version |-> 1, updated_at |-> t]

IN_APP == "in_app"

EMAIL == "email"

CALENDAR == "calendar"

\* Reminder.meta before any dispatch
NoMeta == [dispatched_channels |-> <<>>, dispatched_at |-> <<>>]

Reminder(user_id, t) ==
    [user_id |-> user_id, application_id |-> NULL, activity_id |-> NULL,
     due_at |-> NULL, channels |-> <<IN_APP>>, sent |-> FALSE,
     sent_at |-> NULL, meta |-> NoMeta, version |-> 1, updated_at |-> t]

\* Constructor call Model(user_id=..., **payload): payload overrides defaults.
WithPayload(row, payload) ==
    [f \in DOMAIN row |-> IF f \in DOMAIN payload THEN payload[f] ELSE row[f]]

\* {key: value for key, value in data.items() if value is not None}, less
\* "id"; channels is a list, never None
NonNull(data) ==
    [f \in {g \in DOMAIN data :
                g # "id" /\ (g = "channels" \/ data[g] # NULL)} |-> data[f]]

\* CHECK, NOT NULL and FOREIGN KEY constraints a row must satisfy in db.
ck_applications_salary_range(row) ==
    (row.salary_min = NULL \/ row.salary_max = NULL)
    \/ row.salary_min <= row.salary_max

ck_activities_scheduled_requires_starts_at(row) ==
    row.status # SCHEDULED \/ row.starts_at # NULL

ck_reminders_application_or_activity(row) ==
    row.application_id # NULL \/ row.activity_id # NULL

RowOk(d, kind, row) ==
    IF kind = "applications" THEN ck_applications_salary_range(row)
    ELSE IF kind = "activities" THEN
        /\ row.application_id \in DOMAIN d.applications
        /\ ck_activities_scheduled_requires_starts_at(row)
    ELSE
        /\ ck_reminders_application_or_activity(row)
        /\ row.application_id # NULL => row.application_id \in DOMAIN d.applications
        /\ row.activity_id # NULL => row.activity_id \in DOMAIN d.activities
        /\ row.due_at # NULL

Without(table, gone) == [i \in DOMAIN table \ gone |-> table[i]]

WithRow(table, id, row) ==
    [i \in DOMAIN table \cup {id} |-> IF i = id THEN row ELSE table[i]]

\* Variant: the row alone is deleted, its dependants stay.
CascadeDelete_row_only(d, kind, id) ==
    [d EXCEPT ![kind] = Without(d[kind], {id})]

\* DELETE of one row with the relationship / ON DELETE cascades.
CascadeDelete(d, kind, id) ==
    IF kind = "applications" THEN
        LET acts == {a \in DOMAIN d.activities : d.activities[a].application_id = id}
            rems == {r \in DOMAIN d.reminders :
                        \/ d.reminders[r].application_id = id
                        \/ d.reminders[r].activity_id \in acts}
        IN [applications |-> Without(d.applications, {id}),
            activities |-> Without(d.activities, acts),
            reminders |-> Without(d.reminders, rems)]
    ELSE IF kind = "activities" THEN
        LET rems == {r \in DOMAIN d.reminders : d.reminders[r].activity_id = id}
        IN [applications |-> d.applications,
            activities |-> Without(d.activities, {id}),
            reminders |-> Without(d.reminders, rems)]
    ELSE [d EXCEPT !.reminders = Without(d.reminders, {id})]

----------------------------------------------------------------------------
(* Services.  A call returns [resp, db]: the value or raised error, and   *)
(* the database after the call.                                           *)

Result(resp, d) == [resp |-> resp, db |-> d]

\* select(...).where(Model.id == id, Model.user_id == user_id)
\* Variant: lookup by id alone.
Found_any_owner(d, kind, user_id, id) == id \in DOMAIN d[kind]

Found(d, kind, user_id, id) ==
    id \in DOMAIN d[kind] /\ d[kind][id].user_id = user_id

get_entity(d, kind, user_id, id) ==
    IF ~Found(d, kind, user_id, id)
    THEN Result(NotFoundError(NotFoundDetail(kind), kind, id), d)
    ELSE Result(Ok(200, kind, id, d[kind][id].version), d)

get_application(d, user_id, application_id) ==
    get_entity(d, "applications", user_id, application_id)

get_activity(d, user_id, activity_id) ==
    get_entity(d, "activities", user_id, activity_id)

get_reminder(d, user_id, reminder_id) ==
    get_entity(d, "reminders", user_id, reminder_id)

GetOf(d, kind, user_id, id) ==
    IF kind = "applications" THEN get_application(d, user_id, id)
    ELSE IF kind = "activities" THEN get_activity(d, user_id, id)
    ELSE get_reminder(d, user_id, id)

\* db.add(row); commit; IntegrityError -> rollback, InvalidRequestError.
create_entity(d, kind, row, data, new_id, detail) ==
    LET id == IF "id" \in DOMAIN data /\ data["id"] # NULL THEN data["id"] ELSE new_id
        new == WithPayload(row, NonNull(data))
    IN IF id \in DOMAIN d[kind] \/ ~RowOk(d, kind, new)
       THEN Result(InvalidRequestError(detail), d)
       ELSE Result(Ok(201, kind, id, new.version),
                   [d EXCEPT ![kind] = WithRow(d[kind], id, new)])

create_application(d, user_id, data, new_id, t) ==
    create_entity(d, "applications", Application(user_id, t), data, new_id,
                  "Unable to create application with provided data.")

create_activity(d, user_id, application_id, data, new_id, t) ==
    create_entity(d, "activities", Activity(user_id, application_id, t), data,
                  new_id, "Unable to create activity with provided data.")

create_reminder(d, user_id, data, new_id, t) ==
    create_entity(d, "reminders", Reminder(user_id, t), data, new_id,
                  "Unable to create reminder with provided data.")

\* First half of update_* and delete_*: parse the token, load the caller's
\* row, compare versions.  Returns the loaded object in resp on success.
compare_version(d, kind, id, expected_version, loaded) ==
    IF ~expected_version.ok
    THEN Result(InvalidRequestError(expected_version.detail), d)
    ELSE IF loaded.resp.status # 200 THEN loaded
    ELSE IF d[kind][id].version # expected_version.value
    THEN Result(VersionConflict(kind, id, d[kind][id].version), d)
    ELSE loaded

check_version(d, kind, user_id, id, if_match) ==
    compare_version(d, kind, id, ParseIfMatch(kind, if_match),
                    GetOf(d, kind, user_id, id))

\* Variant: the commit without "version += 1".
commit_update_keeps_version(d, kind, id, obj, update_data, t) ==
    IF id \notin DOMAIN d[kind]
    THEN Result(unexpected_exception_handler, d)
    ELSE
      LET cur == d[kind][id]
          new == [f \in DOMAIN cur |->
                    IF f \in DOMAIN update_data THEN update_data[f]
                    ELSE IF f = "updated_at" THEN t
                    ELSE cur[f]]
      IN IF ~RowOk(d, kind, new)
         THEN Result(unexpected_exception_handler, d)
         ELSE Result(Ok(200, kind, id, new.version),
                     [d EXCEPT ![kind] = WithRow(d[kind], id, new)])

\* Second half of update_*: setattr, version += 1, commit (UPDATE ... WHERE
\* id = pk with the columns that changed on the object), refresh.
commit_update(d, kind, id, obj, update_data, t) ==
    IF id \notin DOMAIN d[kind]
    THEN Result(unexpected_exception_handler, d)
    ELSE
      LET changed == {f \in DOMAIN update_data : update_data[f] # obj[f]}
          cur == d[kind][id]
          new == [f \in DOMAIN cur |->
                    IF f \in changed THEN update_data[f]
                    ELSE IF f = "version" THEN obj.version + 1
                    ELSE IF f = "updated_at" THEN t
                    ELSE cur[f]]
      IN IF ~RowOk(d, kind, new)
         THEN Result(unexpected_exception_handler, d)
         ELSE Result(Ok(200, kind, id, new.version),
                     [d EXCEPT ![kind] = WithRow(d[kind], id, new)])

\* Variant: the delete answered without removing the row.
commit_delete_keeps_row(d, kind, id) == Result(Ok(204, kind, id, NULL), d)

\* Second half of delete_*: db.delete(obj); commit.
commit_delete(d, kind, id) ==
    Result(Ok(204, kind, id, NULL), CascadeDelete(d, kind, id))

\* if update_data: setattr, version += 1, commit, refresh
apply_update(d, kind, id, update_data, t, checked) ==
    IF checked.resp.status # 200 THEN checked
    ELSE IF DOMAIN update_data = {} THEN checked
    ELSE commit_update(d, kind, id, d[kind][id], update_data, t)

\* Variant: without the "if update_data:" test.
update_entity_always_commits(d, kind, user_id, id, update_data, if_match, t) ==
    IF check_version(d, kind, user_id, id, if_match).resp.status # 200
    THEN check_version(d, kind, user_id, id, if_match)
    ELSE commit_update(d, kind, id, d[kind][id], update_data, t)

update_entity(d, kind, user_id, id, update_data, if_match, t) ==
    apply_update(d, kind, id, update_data, t,
                 check_version(d, kind, user_id, id, if_match))

update_application(d, user_id, application_id, update_data, if_match, t) ==
    update_entity(d, "applications", user_id, application_id, update_data,
                  if_match, t)

update_activity(d, user_id, activity_id, update_data, if_match, t) ==
    update_entity(d, "activities", user_id, activity_id, update_data,
                  if_match, t)

update_reminder(d, user_id, reminder_id, update_data, if_match, t) ==
    update_entity(d, "reminders", user_id, reminder_id, update_data,
                  if_match, t)

delete_entity(d, kind, user_id, id, if_match) ==
    LET checked == check_version(d, kind, user_id, id, if_match)
    IN IF checked.resp.status # 200 THEN checked
       ELSE commit_delete(d, kind, id)

delete_application(d, user_id, application_id, if_match) ==
    delete_entity(d, "applications", user_id, application_id, if_match)

delete_activity(d, user_id, activity_id, if_match) ==
    delete_entity(d, "activities", user_id, activity_id, if_match)

delete_reminder(d, user_id, reminder_id, if_match) ==
    delete_entity(d, "reminders", user_id, reminder_id, if_match)

----------------------------------------------------------------------------
(* Cursor codec: src/applications/utils.py *)

HexChars == <<"0", "1", "2", "3", "4", "5", "6", "7",
              "8", "9", "a", "b", "c", "d", "e", "f">>

IsHex(c) == \E i \in 1..16 : HexChars[i] = c

HexVal(c) == (CHOOSE i \in 1..16 : HexChars[i] = c) - 1

\* Variant: the id is written without leading zeros.
Hex_unpadded(id) ==
    IF id < 16 THEN <<HexChars[id + 1]>>
    ELSE <<HexChars[(id \div 16) + 1], HexChars[(id % 16) + 1]>>

\* UUID.hex: fixed width, lower case, zero padded (two digits here)
Hex(id) == <<HexChars[(id \div 16) + 1], HexChars[(id % 16) + 1]>>

\* UUID(text): dashes are ignored, then exactly the full width of hex digits
UUIDOf(text) ==
    LET h == SelectSeq(text, LAMBDA c : c # "-")
    IN IF Len(h) # 2 \/ \E i \in 1..Len(h) : ~IsHex(h[i])
       THEN [ok |-> FALSE, value |-> 0]
       ELSE [ok |-> TRUE, value |-> 16 * HexVal(h[1]) + HexVal(h[2])]

UtcOffset == <<"+", "0", "0", ":", "0", "0">>

\* datetime.isoformat() of an aware UTC datetime: the instant, then +00:00
IsoFormat(t) == IntToStr(t) \o UtcOffset

\* datetime.fromisoformat()
FromIsoFormat(text) ==
    LET n == Len(text) - Len(UtcOffset)
        digits == SubSeq(text, 1, n)
    IN IF n < 1 \/ SubSeq(text, n + 1, Len(text)) # UtcOffset
          \/ \E i \in 1..n : ~IsDigit(digits[i])
       THEN [ok |-> FALSE, value |-> 0]
       ELSE [ok |-> TRUE, value |-> DigitsValue(digits)]

\* A JSON value as json.loads returns it: its Python type, the text of a
\* str, the members of a dict.
JsonStr(text) == [type |-> "str", text |-> text, fields |-> <<>>]

JsonInt == [type |-> "int", text |-> <<>>, fields |-> <<>>]

JsonNone == [type |-> "NoneType", text |-> <<>>, fields |-> <<>>]

JsonList == [type |-> "list", text |-> <<>>, fields |-> <<>>]

JsonDict(fields) == [type |-> "dict", text |-> <<>>, fields |-> fields]

\* Bytes that json.loads rejects
NotJson == [type |-> "invalid", text |-> <<>>, fields |-> <<>>]

\* Length of json.dumps({"created_at": <iso>, "id": <hex>}) in bytes
JsonLen(payload) ==
    16 + Len(payload.fields.created_at.text) + 10 + Len(payload.fields.id.text) + 2

\* A token is the JSON document it carries, whether its bytes are UTF-8, and
\* the number of base64 characters left after rstrip("=").
NoCursor == [payload |-> JsonNone, utf8 |-> TRUE, length |-> 0]

encode_cursor(created_at, id) ==
    LET payload == JsonDict([created_at |-> JsonStr(IsoFormat(created_at)),
                             id |-> JsonStr(Hex(id))])
        raw == JsonLen(payload)
        padded == 4 * ((raw + 2) \div 3)
        pad == (3 - (raw % 3)) % 3
    IN [payload |-> payload, utf8 |-> TRUE, length |-> padded - pad]

Decoded(created_at, id) ==
    [ok |-> TRUE, raised |-> "", created_at |-> created_at, id |-> id]

Raised(exception) ==
    [ok |-> FALSE, raised |-> exception, created_at |-> 0, id |-> 0]

\* except (ValueError, KeyError, json.JSONDecodeError); binascii.Error,
\* UnicodeDecodeError and JSONDecodeError are ValueErrors
Caught == {"binascii.Error", "UnicodeDecodeError", "JSONDecodeError",
           "ValueError", "KeyError"}

\* datetime.fromisoformat(payload["created_at"]), then UUID(payload["id"])
decode_fields(fields) ==
    IF "created_at" \notin DOMAIN fields THEN Raised("KeyError")
    ELSE IF fields.created_at.type # "str" THEN Raised("TypeError")
    ELSE IF ~FromIsoFormat(fields.created_at.text).ok THEN Raised("ValueError")
    ELSE IF "id" \notin DOMAIN fields THEN Raised("KeyError")
    ELSE IF fields.id.type = "NoneType" THEN Raised("TypeError")
    ELSE IF fields.id.type # "str" THEN Raised("AttributeError")
    ELSE IF ~UUIDOf(fields.id.text).ok THEN Raised("ValueError")
    ELSE Decoded(FromIsoFormat(fields.created_at.text).value,
                 UUIDOf(fields.id.text).value)

\* The body of the try block: the value returned or the exception raised
decode_payload(cursor) ==
    IF cursor.length % 4 = 1 THEN Raised("binascii.Error")
    ELSE IF ~cursor.utf8 THEN Raised("UnicodeDecodeError")
    ELSE IF cursor.payload.type = "invalid" THEN Raised("JSONDecodeError")
    ELSE IF cursor.payload.type # "dict" THEN Raised("TypeError")
    ELSE decode_fields(cursor.payload.fields)

\* Variant: every exception of the try block is turned into the 400.
decode_cursor_catch_all(cursor) ==
    IF decode_payload(cursor).ok THEN decode_payload(cursor)
    ELSE Raised("InvalidRequestError")

decode_cursor(cursor) ==
    IF decode_payload(cursor).ok THEN decode_payload(cursor)
    ELSE IF decode_payload(cursor).raised \in Caught
    THEN Raised("InvalidRequestError")
    ELSE decode_payload(cursor)

\* What the caller of a list request gets when decoding fails
cursor_error(after) ==
    IF after.raised = "InvalidRequestError"
    THEN InvalidRequestError("Invalid cursor value.")
    ELSE unexpected_exception_handler

----------------------------------------------------------------------------
(* List operations *)

\* The ids of S as a sequence, in the order given by the relation before.
SortBy(S, before) ==
    [i \in 1..Cardinality(S) |->
        CHOOSE x \in S : Cardinality({y \in S : <<y, x>> \in before}) = i - 1]

Take(seq, n) == SubSeq(seq, 1, IF Len(seq) < n THEN Len(seq) ELSE n)

MAX_PAGE_SIZE == 3

\* ORDER BY created_at DESC, id DESC
AppBefore(d, x, y) ==
    \/ d.applications[x].created_at > d.applications[y].created_at
    \/ /\ d.applications[x].created_at = d.applications[y].created_at
       /\ x > y

AppOrder(d) ==
    {p \in (DOMAIN d.applications) \X (DOMAIN d.applications) : AppBefore(d, p[1], p[2])}

\* Variant: the cursor compares created_at alone.
list_applications_by_time(d, user_id, limit, cursor) ==
    IF limit <= 0
    THEN [resp |-> InvalidRequestError("limit must be greater than zero."),
          items |-> <<>>, next_cursor |-> NoCursor]
    ELSE IF limit > MAX_PAGE_SIZE
    THEN [resp |-> InvalidRequestError("limit cannot exceed MAX_PAGE_SIZE."),
          items |-> <<>>, next_cursor |-> NoCursor]
    ELSE
      LET after == IF cursor = NoCursor
                   THEN Decoded(0, 0)
                   ELSE decode_cursor(cursor)
          matching == {a \in DOMAIN d.applications :
                         /\ d.applications[a].user_id = user_id
                         /\ cursor # NoCursor =>
                              d.applications[a].created_at < after.created_at}
          rows == Take(SortBy(matching, AppOrder(d)),
                       limit + 1)
          has_more == Len(rows) > limit
          applications == Take(rows, limit)
      IN IF ~after.ok
         THEN [resp |-> cursor_error(after),
               items |-> <<>>, next_cursor |-> NoCursor]
         ELSE [resp |-> Ok(200, "applications", NULL, NULL),
               items |-> applications,
               next_cursor |->
                 IF has_more /\ applications # <<>>
                 THEN encode_cursor(
                        d.applications[applications[Len(applications)]].created_at,
                        applications[Len(applications)])
                 ELSE NoCursor]

\* Variant: the cursor row itself passes the filter.
list_applications_inclusive(d, user_id, limit, cursor) ==
    IF limit <= 0
    THEN [resp |-> InvalidRequestError("limit must be greater than zero."),
          items |-> <<>>, next_cursor |-> NoCursor]
    ELSE IF limit > MAX_PAGE_SIZE
    THEN [resp |-> InvalidRequestError("limit cannot exceed MAX_PAGE_SIZE."),
          items |-> <<>>, next_cursor |-> NoCursor]
    ELSE
      LET after == IF cursor = NoCursor
                   THEN Decoded(0, 0)
                   ELSE decode_cursor(cursor)
          matching == {a \in DOMAIN d.applications :
                         /\ d.applications[a].user_id = user_id
                         /\ cursor # NoCursor =>
                              \/ d.applications[a].created_at < after.created_at
                              \/ /\ d.applications[a].created_at = after.created_at
                                 /\ a <= after.id}
          rows == Take(SortBy(matching, AppOrder(d)),
                       limit + 1)
          has_more == Len(rows) > limit
          applications == Take(rows, limit)
      IN IF ~after.ok
         THEN [resp |-> cursor_error(after),
               items |-> <<>>, next_cursor |-> NoCursor]
         ELSE [resp |-> Ok(200, "applications", NULL, NULL),
               items |-> applications,
               next_cursor |->
                 IF has_more /\ applications # <<>>
                 THEN encode_cursor(
                        d.applications[applications[Len(applications)]].created_at,
                        applications[Len(applications)])
                 ELSE NoCursor]

\* Variant: the query fetches limit rows and a full page is taken to have
\* a successor.
list_applications_exact_fetch(d, user_id, limit, cursor) ==
    IF limit <= 0
    THEN [resp |-> InvalidRequestError("limit must be greater than zero."),
          items |-> <<>>, next_cursor |-> NoCursor]
    ELSE IF limit > MAX_PAGE_SIZE
    THEN [resp |-> InvalidRequestError("limit cannot exceed MAX_PAGE_SIZE."),
          items |-> <<>>, next_cursor |-> NoCursor]
    ELSE
      LET after == IF cursor = NoCursor
                   THEN Decoded(0, 0)
                   ELSE decode_cursor(cursor)
          matching == {a \in DOMAIN d.applications :
                         /\ d.applications[a].user_id = user_id
                         /\ cursor # NoCursor =>
                              \/ d.applications[a].created_at < after.created_at
                              \/ /\ d.applications[a].created_at = after.created_at
                                 /\ a < after.id}
          rows == Take(SortBy(matching, AppOrder(d)),
                       limit)
          has_more == Len(rows) >= limit
          applications == Take(rows, limit)
      IN IF ~after.ok
         THEN [resp |-> cursor_error(after),
               items |-> <<>>, next_cursor |-> NoCursor]
         ELSE [resp |-> Ok(200, "applications", NULL, NULL),
               items |-> applications,
               next_cursor |->
                 IF has_more /\ applications # <<>>
                 THEN encode_cursor(
                        d.applications[applications[Len(applications)]].created_at,
                        applications[Len(applications)])
                 ELSE NoCursor]

list_applications(d, user_id, limit, cursor) ==
    IF limit <= 0
    THEN [resp |-> InvalidRequestError("limit must be greater than zero."),
          items |-> <<>>, next_cursor |-> NoCursor]
    ELSE IF limit > MAX_PAGE_SIZE
    THEN [resp |-> InvalidRequestError("limit cannot exceed MAX_PAGE_SIZE."),
          items |-> <<>>, next_cursor |-> NoCursor]
    ELSE
      LET after == IF cursor = NoCursor
                   THEN Decoded(0, 0)
                   ELSE decode_cursor(cursor)
          matching == {a \in DOMAIN d.applications :
                         /\ d.applications[a].user_id = user_id
                         /\ cursor # NoCursor =>
                              \/ d.applications[a].created_at < after.created_at
                              \/ /\ d.applications[a].created_at = after.created_at
                                 /\ a < after.id}
          rows == Take(SortBy(matching, AppOrder(d)),
                       limit + 1)
          has_more == Len(rows) > limit
          applications == Take(rows, limit)
      IN IF ~after.ok
         THEN [resp |-> cursor_error(after),
               items |-> <<>>, next_cursor |-> NoCursor]
         ELSE [resp |-> Ok(200, "applications", NULL, NULL),
               items |-> applications,
               next_cursor |->
                 IF has_more /\ applications # <<>>
                 THEN encode_cursor(
                        d.applications[applications[Len(applications)]].created_at,
                        applications[Len(applications)])
                 ELSE NoCursor]

\* ORDER BY starts_at NULLS LAST (then created_at DESC, not kept here: the
\* key breaks the tie)
ActBefore(d, x, y) ==
    LET sx == d.activities[x].starts_at
        sy == d.activities[y].starts_at
    IN \/ sx # NULL /\ sy = NULL
       \/ sx # NULL /\ sy # NULL /\ sx < sy
       \/ sx = sy /\ x > y

ActOrder(d) ==
    {p \in (DOMAIN d.activities) \X (DOMAIN d.activities) : ActBefore(d, p[1], p[2])}

list_activities_for_application(d, user_id, application_id) ==
    SortBy({a \in DOMAIN d.activities :
               /\ d.activities[a].user_id = user_id
               /\ d.activities[a].application_id = application_id},
           ActOrder(d))

\* ORDER BY due_at ASC
RemBefore(d, x, y) ==
    \/ d.reminders[x].due_at < d.reminders[y].due_at
    \/ d.reminders[x].due_at = d.reminders[y].due_at /\ x < y

RemOrder(d) ==
    {p \in (DOMAIN d.reminders) \X (DOMAIN d.reminders) : RemBefore(d, p[1], p[2])}

list_reminders(d, user_id) ==
    SortBy({r \in DOMAIN d.reminders : d.reminders[r].user_id = user_id},
           RemOrder(d))

----------------------------------------------------------------------------
(* Routers.  A handler returns [svc, resp, db]: what the service call that *)
(* writes returned, the HTTP response, and the database afterwards.        *)

Handled(svc, resp, d) == [svc |-> svc, resp |-> resp, db |-> d]

Direct(r) == Handled(r.resp, r.resp, r.db)

ParentMismatch(activity_id) ==
    NotFoundError("Activity not found for this application.",
                  "activities", activity_id)

applications_create(d, user, data, new_id, t) ==
    Direct(create_application(d, user, data, new_id, t))

applications_get(d, user, application_id) ==
    Direct(get_application(d, user, application_id))

applications_update(d, user, application_id, update_data, if_match, t) ==
    Direct(update_application(d, user, application_id, update_data, if_match, t))

applications_delete(d, user, application_id, if_match) ==
    Direct(delete_application(d, user, application_id, if_match))

activities_create(d, user, application_id, data, new_id, t) ==
    Direct(create_activity(d, user, application_id, data, new_id, t))

activities_get(d, user, application_id, activity_id) ==
    LET r == get_activity(d, user, activity_id)
    IN IF r.resp.status = 200
          /\ d.activities[activity_id].application_id # application_id
       THEN Handled(r.resp, ParentMismatch(activity_id), r.db)
       ELSE Direct(r)

\* The parent is compared after service.update_activity has committed.
parent_checked(r, application_id, activity_id) ==
    IF r.resp.status = 200
       /\ r.db.activities[activity_id].application_id # application_id
    THEN Handled(r.resp, ParentMismatch(activity_id), r.db)
    ELSE Direct(r)

activities_update(d, user, application_id, activity_id, update_data, if_match, t) ==
    parent_checked(update_activity(d, user, activity_id, update_data, if_match, t),
                   application_id, activity_id)

\* The row is loaded and its parent compared before service.delete_activity.
activities_delete(d, user, application_id, activity_id, if_match) ==
    LET g == get_activity(d, user, activity_id)
    IN IF g.resp.status # 200 THEN Direct(g)
       ELSE IF d.activities[activity_id].application_id # application_id
       THEN Handled(g.resp, ParentMismatch(activity_id), d)
       ELSE Direct(delete_activity(d, user, activity_id, if_match))

reminders_create(d, user, data, new_id, t) ==
    Direct(create_reminder(d, user, data, new_id, t))

reminders_get(d, user, reminder_id) ==
    Direct(get_reminder(d, user, reminder_id))

reminders_update(d, user, reminder_id, update_data, if_match, t) ==
    Direct(update_reminder(d, user, reminder_id, update_data, if_match, t))

\* The row is loaded before service.delete_reminder.
reminders_delete(d, user, reminder_id, if_match) ==
    LET g == get_reminder(d, user, reminder_id)
    IN IF g.resp.status # 200 THEN Direct(g)
       ELSE Direct(delete_reminder(d, user, reminder_id, if_match))

----------------------------------------------------------------------------
(* Requests the model issues *)

IfMatchValues ==
    {None, <<"W", "/", "x">>} \cup {_set_etag(v) : v \in 1..MaxVersion}

Empty == <<>>

ApplicationPatches == {Empty, [salary_min |-> 2], [salary_max |-> 1]}

ActivityPatches == {Empty, [status |-> DONE], [starts_at |-> NULL]}

ReminderPatches == {Empty, [sent |-> TRUE], [application_id |-> NULL]}

ApplicationPayloads ==
    {Empty, [salary_min |-> 2, salary_max |-> 1]}
    \cup {[id |-> i] : i \in AppIds}

ActivityPayloads ==
    {Empty, [starts_at |-> 1]} \cup {[id |-> i, starts_at |-> 1] : i \in ActIds}

ReminderPayloads ==
    {[due_at |-> 1]}
    \cup {[due_at |-> 1, application_id |-> a] : a \in AppParams}
    \cup {[due_at |-> 1, activity_id |-> a] : a \in ActIds}

\* uuid4(): an identifier no row of the table carries
FreshIds(d, kind, ids) == ids \ DOMAIN d[kind]

\* Versions are capped: a write that would pass MaxVersion is not issued.
WithinCap(d) ==
    \A kind \in Kinds : \A id \in DOMAIN d[kind] :
        d[kind][id].version <= MaxVersion

----------------------------------------------------------------------------
(* Reminder engine: src/background/reminder_engine.py *)

\* Wall-clock readings count ticks; a day has DayTicks of them.
time_of(wall) == wall % DayTicks

date_of(wall) == wall \div DayTicks

\* ZoneInfo(name): the zone's UTC offset is `first` before the instant
\* `change` and `second` from then on.  Africa/Lagos keeps one offset;
\* Europe/London sets its clocks back by two ticks at instant 6 and
\* America/New_York sets them forward by two ticks at instant 3.
ZoneNames == {"UTC", "Africa/Lagos", "Europe/London", "America/New_York"}

ZoneInfo(name) ==
    IF name = "Africa/Lagos" THEN [first |-> 1, second |-> 1, change |-> 0]
    ELSE IF name = "Europe/London" THEN [first |-> 2, second |-> 0, change |-> 6]
    ELSE IF name = "America/New_York"
    THEN [first |-> 0, second |-> 2, change |-> 3]
    ELSE [first |-> 0, second |-> 0, change |-> 0]

utcoffset(tz, t) ==
    IF t < ZoneInfo(tz).change THEN ZoneInfo(tz).first ELSE ZoneInfo(tz).second

\* now.astimezone(tz): the wall clock of zone tz at instant t
astimezone(t, tz) == t + utcoffset(tz, t)

\* local.astimezone(timezone.utc) with fold = 0: a wall-clock reading that
\* occurs twice stands for its first occurrence, and one that the clocks
\* skip is read with the offset in force before the change
to_utc(wall, tz) ==
    IF wall - ZoneInfo(tz).first < ZoneInfo(tz).change
    THEN wall - ZoneInfo(tz).first
    ELSE IF wall - ZoneInfo(tz).second >= ZoneInfo(tz).change
    THEN wall - ZoneInfo(tz).second
    ELSE wall - ZoneInfo(tz).first

_resolve_timezone(tz_name) ==
    IF tz_name \in ZoneNames THEN tz_name ELSE "UTC"

_is_within_quiet_hours(current, start, end) ==
    IF start < end THEN start <= current /\ current < end
    ELSE current >= start \/ current < end

\* Variant: a window is never taken to wrap past midnight.
_is_within_quiet_hours_same_day(current, start, end) ==
    start <= current /\ current < end

\* datetime.combine(local_now.date(), end), a day later if not after local_now
local_end(local_now, end) ==
    IF date_of(local_now) * DayTicks + end <= local_now
    THEN date_of(local_now) * DayTicks + end + DayTicks
    ELSE date_of(local_now) * DayTicks + end

\* A users row with its user_settings row (exists is false without one)
NoSettings ==
    [exists |-> FALSE, quiet_hours_start |-> NULL, quiet_hours_end |-> NULL]

UserSettings(start, end) ==
    [exists |-> TRUE, quiet_hours_start |-> start, quiet_hours_end |-> end]

User(timezone, settings) == [timezone |-> timezone, settings |-> settings]

\* NULL stands for None
_next_allowed_send_time(user, t) ==
    IF \/ ~user.settings.exists
       \/ user.settings.quiet_hours_start = NULL
       \/ user.settings.quiet_hours_end = NULL
    THEN NULL
    ELSE IF user.settings.quiet_hours_start = user.settings.quiet_hours_end
    THEN NULL
    ELSE IF ~_is_within_quiet_hours(
                time_of(astimezone(t, _resolve_timezone(user.timezone))),
                user.settings.quiet_hours_start,
                user.settings.quiet_hours_end)
    THEN NULL
    ELSE to_utc(local_end(astimezone(t, _resolve_timezone(user.timezone)),
                          user.settings.quiet_hours_end),
                _resolve_timezone(user.timezone))

\* if defer_until and defer_until > current_time
deferring(user, t) ==
    /\ _next_allowed_send_time(user, t) # NULL
    /\ _next_allowed_send_time(user, t) > t

_parse_channels(channels) ==
    IF SelectSeq(channels, LAMBDA c : c \in {IN_APP, EMAIL, CALENDAR}) = <<>>
    THEN <<IN_APP>>
    ELSE SelectSeq(channels, LAMBDA c : c \in {IN_APP, EMAIL, CALENDAR})

\* The row as _dispatch_reminder leaves it
_dispatch_reminder(reminder, t) ==
    [reminder EXCEPT !.meta =
        [dispatched_channels |-> _parse_channels(reminder.channels),
         dispatched_at |-> IsoFormat(t)]]

\* ... and whether it called send_email_task.delay
hands_off_email(reminder) ==
    \E i \in 1..Len(_parse_channels(reminder.channels)) :
        _parse_channels(reminder.channels)[i] = EMAIL

\* Variant: the dispatched reminder is not marked as sent.
dispatched_not_marked(reminder, t) ==
    [_dispatch_reminder(reminder, t) EXCEPT !.version = @ + 1,
                                            !.updated_at = t]

\* The dispatch branch of the loop body
dispatched(reminder, t) ==
    [_dispatch_reminder(reminder, t) EXCEPT !.sent = TRUE, !.sent_at = t,
                                            !.version = @ + 1,
                                            !.updated_at = t]

\* The deferral branch of the loop body
deferred(reminder, defer_until, t) ==
    [reminder EXCEPT !.due_at = defer_until, !.version = @ + 1,
                     !.updated_at = t]

\* One pass of the loop body over a loaded reminder
processed(reminder, user, t) ==
    IF deferring(user, t)
    THEN deferred(reminder, _next_allowed_send_time(user, t), t)
    ELSE dispatched(reminder, t)

\* The rows a scan at t takes up: due and not sent
get_due_reminders(d, t) ==
    {r \in DOMAIN d.reminders :
        d.reminders[r].due_at <= t /\ ~d.reminders[r].sent}

\* Variant: without the cap.
Batches_uncapped(due) == {due}

\* Variant: the slice keeps what lies beyond the cap.
Batches_beyond_cap(due) ==
    IF REMINDER_DISPATCH_BATCH_SIZE > 0
       /\ Cardinality(due) > REMINDER_DISPATCH_BATCH_SIZE
    THEN {b \in SUBSET due :
            Cardinality(b) = Cardinality(due) - REMINDER_DISPATCH_BATCH_SIZE}
    ELSE IF REMINDER_DISPATCH_BATCH_SIZE > 0 THEN {{}}
    ELSE {due}

\* reminders[:REMINDER_DISPATCH_BATCH_SIZE], in whatever order they were read
Batches(due) ==
    IF REMINDER_DISPATCH_BATCH_SIZE > 0
       /\ Cardinality(due) > REMINDER_DISPATCH_BATCH_SIZE
    THEN {b \in SUBSET due : Cardinality(b) = REMINDER_DISPATCH_BATCH_SIZE}
    ELSE {due}

ReminderProcessingResult(sent, deferred_count) ==
    [sent |-> sent, deferred |-> deferred_count]

\* The loop over the batch: rows holds the loaded objects, the result the
\* rows to write, the counts and the reminders whose email was handed off.
\* (reminder.user is never missing: user_id is a NOT NULL foreign key.)
process_due_reminders(rows, users, t, batch) ==
    [rows |-> [r \in batch |-> processed(rows[r], users[rows[r].user_id], t)],
     result |-> ReminderProcessingResult(
        Cardinality({r \in batch : ~deferring(users[rows[r].user_id], t)}),
        Cardinality({r \in batch : deferring(users[rows[r].user_id], t)})),
     mail |-> {r \in batch : /\ ~deferring(users[rows[r].user_id], t)
                             /\ hands_off_email(rows[r])}]

\* The attributes the loop set to a new value on a loaded object
modified(loaded, row) == {f \in DOMAIN row : row[f] # loaded[f]}

\* A processed row whose UPDATE ... WHERE id = pk matches no row
stale(d, rows) == \E r \in DOMAIN rows : r \notin DOMAIN d.reminders

\* session.commit(): one UPDATE per processed row, by primary key, setting
\* the attributes that changed on the object; the other columns keep what
\* the table holds
flush(d, loaded, rows) ==
    [d EXCEPT !.reminders =
        [r \in DOMAIN d.reminders |->
            IF r \in DOMAIN rows
            THEN [f \in DOMAIN d.reminders[r] |->
                    IF f \in modified(loaded[r], rows[r])
                    THEN rows[r][f] ELSE d.reminders[r][f]]
            ELSE d.reminders[r]]]

\* User.timezone defaults to Africa/Lagos; no user_settings row
DefaultUser == User("Africa/Lagos", NoSettings)

NoScan ==
    [at |-> NULL, batch |-> {}, result |-> ReminderProcessingResult(0, 0),
     mail |-> {}, committed |-> FALSE, before |-> EmptyDb]

IdleWorker == [pc |-> "idle", at |-> NULL, batch |-> {}, rows |-> <<>>]

IdleEngine ==
    [users |-> [u \in Users |-> DefaultUser],
     outbox |-> [r \in ScanRemIds |-> 0],
     scan |-> NoScan,
     failures |-> 0,
     workers |-> [w \in Workers |-> IdleWorker]]

----------------------------------------------------------------------------
(* Verification codes: src/auth/models.py, src/auth/service.py *)

CodeValues == {"000001", "000002"}

VerifyIds == {1, 2}

MaxCodes == 2

\* settings.VERIFICATION_CODE_EXPIRE_MINUTES, in ticks
VERIFICATION_CODE_EXPIRE_MINUTES == 1

VerificationCode(user_id, code, expires_at) ==
    [user_id |-> user_id, code |-> code, expires_at |-> expires_at,
     used_at |-> NULL]

\* uq_verification_codes_user_code: the commit of a second row with the same
\* user and code raises, and nothing is stored.
request_verification_code(codes, user, code_value, t) ==
    IF \E i \in DOMAIN codes :
          codes[i].user_id = user /\ codes[i].code = code_value
    THEN codes
    ELSE Append(codes, VerificationCode(user, code_value,
                                        t + VERIFICATION_CODE_EXPIRE_MINUTES))

IdleVerify ==
    [pc |-> "idle", code |-> "", token |-> NULL, at |-> NULL,
     resp |-> Ok(0, "", NULL, NULL)]

VerifyFailed(code_value, token, t, resp) ==
    [pc |-> "done", code |-> code_value, token |-> token, at |-> t,
     resp |-> resp]

\* select ... where code == code_value; one_or_none(); now; the three checks
verify_check(codes, code_value, t) ==
    LET found == {i \in DOMAIN codes : codes[i].code = code_value}
        token == CHOOSE i \in found : TRUE
    IN IF found = {}
       THEN VerifyFailed(code_value, NULL, t,
                         InvalidRequestError("Invalid or expired token."))
       ELSE IF Cardinality(found) > 1
       THEN VerifyFailed(code_value, NULL, t, unexpected_exception_handler)
       ELSE IF codes[token].used_at # NULL
       THEN VerifyFailed(code_value, token, t,
                         InvalidRequestError("Token has already been used."))
       ELSE IF codes[token].expires_at < t
       THEN VerifyFailed(code_value, token, t,
                         InvalidRequestError("Token has expired."))
       ELSE [pc |-> "checked", code |-> code_value, token |-> token,
             at |-> t, resp |-> Ok(0, "", NULL, NULL)]

\* update(VerificationCode).where(id == token.id).values(used_at=now); commit
mark_used(codes, token, t) == [codes EXCEPT ![token].used_at = t]

NoAuth == [codes |-> <<>>, verifies |-> [v \in VerifyIds |-> IdleVerify]]

----------------------------------------------------------------------------
(* State *)

\* The request being answered: its inputs, the database it met (before),
\* what the writing service call returned (svc) and the HTTP response.
NoRequest ==
    [op |-> "none", kind |-> "", caller |-> "", id |-> NULL,
     application_id |-> NULL, if_match |-> None, data |-> Empty,
     limit |-> 0, cursor |-> NoCursor,
     svc |-> Ok(0, "", NULL, NULL), resp |-> Ok(0, "", NULL, NULL),
     etag |-> None, items |-> <<>>, next_cursor |-> NoCursor,
     before |-> EmptyDb]

EtagOf(resp) ==
    IF resp.status \in {200, 201} /\ resp.current_version # NULL
    THEN _set_etag(resp.current_version) ELSE None

Request(op, kind, caller, id, application_id, if_match, data, h) ==
    [NoRequest EXCEPT !.op = op, !.kind = kind, !.caller = caller, !.id = id,
                      !.application_id = application_id,
                      !.if_match = if_match, !.data = data,
                      !.svc = h.svc, !.resp = h.resp, !.etag = EtagOf(h.resp),
                      !.before = db]

Listing(kind, caller, application_id, limit, cursor, r) ==
    [NoRequest EXCEPT !.op = "list", !.kind = kind, !.caller = caller,
                      !.application_id = application_id,
                      !.limit = limit, !.cursor = cursor,
                      !.svc = r.resp, !.resp = r.resp, !.items = r.items,
                      !.next_cursor = r.next_cursor, !.before = db]

IdleSession == [pc |-> "idle"]

IdlePager ==
    [active |-> FALSE, user |-> "", limit |-> 0, cursor |-> NoCursor,
     seen |-> <<>>, start |-> {}, known |-> {}, done |-> FALSE]

Init ==
    /\ db = EmptyDb
    /\ now = 0
    /\ last = NoRequest
    /\ sessions = [s \in SessionIds |-> IdleSession]
    /\ pager = IdlePager
    /\ engine = IdleEngine
    /\ auth = NoAuth

\* A request is taken up when the previous response has been delivered.
Respond(h, request) ==
    /\ last = NoRequest
    /\ WithinCap(h.db)
    /\ db' = h.db
    /\ last' = request
    /\ UNCHANGED <<now, sessions, pager, engine, auth>>

\* The response leaves the server.
Deliver ==
    /\ last # NoRequest
    /\ last' = NoRequest
    /\ UNCHANGED <<db, now, sessions, pager, engine, auth>>

Tick ==
    /\ last = NoRequest
    /\ now < MaxTime
    /\ now' = now + 1
    /\ UNCHANGED <<db, last, sessions, pager, engine, auth>>

----------------------------------------------------------------------------
(* Request handlers, each one whole *)

CreateApplicationFrom(users, payloads, ids) ==
    \E user \in users, data \in payloads :
    \E new_id \in IF "id" \in DOMAIN data THEN {data["id"]}
                  ELSE FreshIds(db, "applications", ids) :
        LET h == applications_create(db, user, data, new_id, now)
        IN Respond(h, Request("create", "applications", user, h.resp.id,
                              NULL, None, data, h))

CreateApplication ==
    CreateApplicationFrom(Users, ApplicationPayloads, AppIds)

GetApplication ==
    \E user \in Users, id \in AppIds :
        LET h == applications_get(db, user, id)
        IN Respond(h, Request("get", "applications", user, id, NULL, None,
                              Empty, h))

UpdateApplication ==
    \E user \in Users, id \in AppIds, update_data \in ApplicationPatches,
       if_match \in IfMatchValues :
        /\ LET h == applications_update(db, user, id, update_data, if_match, now)
           IN Respond(h, Request("update", "applications", user, id, NULL,
                                 if_match, update_data, h))

DeleteApplication ==
    \E user \in Users, id \in AppIds, if_match \in IfMatchValues :
        LET h == applications_delete(db, user, id, if_match)
        IN Respond(h, Request("delete", "applications", user, id, NULL,
                              if_match, Empty, h))

ListApplications ==
    \E user \in Users, limit \in 1..MAX_PAGE_SIZE :
        LET r == list_applications(db, user, limit, NoCursor)
        IN Respond(Handled(r.resp, r.resp, db),
                   Listing("applications", user, NULL, limit, NoCursor, r))

CreateActivityFrom(users, payloads) ==
    \E user \in users, application_id \in AppParams, data \in payloads :
    \E new_id \in IF "id" \in DOMAIN data THEN {data["id"]}
                  ELSE FreshIds(db, "activities", ActIds) :
        LET h == activities_create(db, user, application_id, data, new_id, now)
        IN Respond(h, Request("create", "activities", user, h.resp.id,
                              application_id, None, data, h))

CreateActivity == CreateActivityFrom(Users, ActivityPayloads)

GetActivity ==
    \E user \in Users, application_id \in AppParams, id \in ActIds :
        LET h == activities_get(db, user, application_id, id)
        IN Respond(h, Request("get", "activities", user, id, application_id,
                              None, Empty, h))

UpdateActivity ==
    \E user \in Users, application_id \in AppParams, id \in ActIds,
       update_data \in ActivityPatches, if_match \in IfMatchValues :
        /\ LET h == activities_update(db, user, application_id, id,
                                      update_data, if_match, now)
           IN Respond(h, Request("update", "activities", user, id,
                                 application_id, if_match, update_data, h))

DeleteActivity ==
    \E user \in Users, application_id \in AppParams, id \in ActIds,
       if_match \in IfMatchValues :
        LET h == activities_delete(db, user, application_id, id, if_match)
        IN Respond(h, Request("delete", "activities", user, id,
                              application_id, if_match, Empty, h))

ListActivities ==
    \E user \in Users, application_id \in AppParams :
        LET r == [resp |-> Ok(200, "activities", NULL, NULL),
                  items |-> list_activities_for_application(db, user,
                                                            application_id),
                  next_cursor |-> NoCursor]
        IN Respond(Handled(r.resp, r.resp, db),
                   Listing("activities", user, application_id, 0, NoCursor, r))

CreateReminderFrom(users, payloads, ids) ==
    \E user \in users, data \in payloads :
    \E new_id \in FreshIds(db, "reminders", ids) :
        LET h == reminders_create(db, user, data, new_id, now)
        IN Respond(h, Request("create", "reminders", user, h.resp.id, NULL,
                              None, data, h))

CreateReminder == CreateReminderFrom(Users, ReminderPayloads, RemIds)

GetReminder ==
    \E user \in Users, id \in RemIds :
        LET h == reminders_get(db, user, id)
        IN Respond(h, Request("get", "reminders", user, id, NULL, None,
                              Empty, h))

UpdateReminder ==
    \E user \in Users, id \in RemIds, update_data \in ReminderPatches,
       if_match \in IfMatchValues :
        /\ LET h == reminders_update(db, user, id, update_data, if_match, now)
           IN Respond(h, Request("update", "reminders", user, id, NULL,
                                 if_match, update_data, h))

DeleteReminder ==
    \E user \in Users, id \in RemIds, if_match \in IfMatchValues :
        LET h == reminders_delete(db, user, id, if_match)
        IN Respond(h, Request("delete", "reminders", user, id, NULL,
                              if_match, Empty, h))

ListReminders ==
    \E user \in Users :
        LET r == [resp |-> Ok(200, "reminders", NULL, NULL),
                  items |-> list_reminders(db, user),
                  next_cursor |-> NoCursor]
        IN Respond(Handled(r.resp, r.resp, db),
                   Listing("reminders", user, NULL, 0, NoCursor, r))

Next ==
    \/ Tick
    \/ CreateApplication
    \/ GetApplication
    \/ UpdateApplication
    \/ DeleteApplication
    \/ ListApplications
    \/ CreateActivity
    \/ GetActivity
    \/ UpdateActivity
    \/ DeleteActivity
    \/ ListActivities
    \/ CreateReminder
    \/ GetReminder
    \/ UpdateReminder
    \/ DeleteReminder
    \/ ListReminders
    \/ Deliver

Spec == Init /\ [][Next]_vars

----------------------------------------------------------------------------
(* Writers in flight: update_* and delete_* at their await points.  Each
   request runs on a session of its own (READ COMMITTED): the SELECT and the
   version compare come first, the UPDATE or DELETE ... WHERE id = pk and the
   COMMIT later, and other requests may commit in between. *)

PatchesOf(kind) ==
    IF kind = "applications" THEN ApplicationPatches
    ELSE IF kind = "activities" THEN ActivityPatches
    ELSE ReminderPatches

\* parse_if_match, get_* and the version compare.  A request that fails here
\* is answered at once; one that passes keeps the object it loaded.  Sessions
\* are interchangeable, so the lowest free one takes the request.
Begin(s) ==
    /\ last = NoRequest
    /\ sessions[s].pc = "idle"
    /\ \A r \in SessionIds : r < s => sessions[r].pc = "loaded"
    /\ \E op \in {"update", "delete"}, kind \in Kinds, user \in Users :
       \E id \in Ids(kind), if_match \in {_set_etag(v) : v \in 1..MaxVersion},
          data \in IF op = "update" THEN PatchesOf(kind) \ {Empty} ELSE {Empty} :
           LET checked == check_version(db, kind, user, id, if_match)
           IN IF checked.resp.status = 200
              THEN /\ sessions' = [sessions EXCEPT ![s] =
                          [pc |-> "loaded", op |-> op, kind |-> kind,
                           caller |-> user, id |-> id, if_match |-> if_match,
                           data |-> data, obj |-> db[kind][id]]]
                   /\ UNCHANGED <<db, now, last, pager, engine, auth>>
              ELSE /\ last' = Request(op, kind, user, id, NULL, if_match, data,
                                      Direct(checked))
                   /\ UNCHANGED <<db, now, sessions, pager, engine, auth>>

\* setattr, version += 1, commit, refresh; or db.delete(obj), commit.
Commit(s) ==
    /\ last = NoRequest
    /\ sessions[s].pc = "loaded"
    /\ LET w == sessions[s]
           r == IF w.op = "update"
                THEN commit_update(db, w.kind, w.id, w.obj, w.data, now)
                ELSE commit_delete(db, w.kind, w.id)
       IN /\ WithinCap(r.db)
          /\ db' = r.db
          /\ last' = Request(w.op, w.kind, w.caller, w.id, NULL, w.if_match,
                             w.data, Direct(r))
          /\ sessions' = [sessions EXCEPT ![s] = IdleSession]
          /\ UNCHANGED <<now, pager, engine, auth>>

\* The entities the writers race on are created by one owner.
RaceUsers == {"A"}

RaceCreateApplication == CreateApplicationFrom(RaceUsers, {Empty}, AppIds)

RaceCreateActivity == CreateActivityFrom(RaceUsers, {[starts_at |-> 1]})

RaceCreateReminder ==
    CreateReminderFrom(RaceUsers, {[due_at |-> 1, application_id |-> 1]},
                       RemIds)

NextRace ==
    \/ RaceCreateApplication
    \/ RaceCreateActivity
    \/ RaceCreateReminder
    \/ \E s \in SessionIds : Begin(s)
    \/ \E s \in SessionIds : Commit(s)
    \/ Deliver

SpecRace == Init /\ [][NextRace]_vars

----------------------------------------------------------------------------
(* A client paging through its applications while applications are created *)

OwnerIds(d, user) ==
    {a \in DOMAIN d.applications : d.applications[a].user_id = user}

\* The page a fetch returned is appended; the chain ends on a null cursor.
Fetched(user, limit, r, seen, start) ==
    [active |-> TRUE, user |-> user, limit |-> limit,
     cursor |-> r.next_cursor, seen |-> seen \o r.items, start |-> start,
     known |-> OwnerIds(db, user), done |-> r.next_cursor = NoCursor]

FirstPage ==
    /\ last = NoRequest
    /\ ~pager.active
    /\ \E user \in Users, limit \in 1..MAX_PAGE_SIZE :
         LET r == list_applications(db, user, limit, NoCursor)
         IN pager' = Fetched(user, limit, r, <<>>, OwnerIds(db, user))
    /\ UNCHANGED <<db, now, last, sessions, engine, auth>>

NextPage ==
    /\ last = NoRequest
    /\ pager.active /\ ~pager.done
    /\ LET r == list_applications(db, pager.user, pager.limit, pager.cursor)
       IN /\ r.resp.status = 200
          /\ pager' = Fetched(pager.user, pager.limit, r, pager.seen,
                              pager.start)
    /\ UNCHANGED <<db, now, last, sessions, engine, auth>>

ClosePager ==
    /\ last = NoRequest
    /\ pager.active /\ pager.done
    /\ pager' = IdlePager
    /\ UNCHANGED <<db, now, last, sessions, engine, auth>>

PageCreateApplication == CreateApplicationFrom(Users, {Empty}, PageAppIds)

NextPaging ==
    \/ PageCreateApplication
    \/ FirstPage
    \/ NextPage
    \/ ClosePager
    \/ Deliver
    \/ Tick

SpecPage == Init /\ [][NextPaging]_vars

----------------------------------------------------------------------------
(* Listing with a cursor the client supplies *)

\* A token of a valid base64 length carrying the given document
Damaged(payload) == [payload |-> payload, utf8 |-> TRUE, length |-> 4]

GoodTime == JsonStr(IsoFormat(0))

GoodId == JsonStr(Hex(1))

MalformedTokens ==
    { [encode_cursor(0, 1) EXCEPT !.length = 5],
      [encode_cursor(0, 1) EXCEPT !.utf8 = FALSE],
      Damaged(NotJson),
      Damaged(JsonList), Damaged(JsonInt), Damaged(JsonNone),
      Damaged(JsonStr(<<"x">>)),
      Damaged(JsonDict([other |-> GoodId])),
      Damaged(JsonDict([id |-> GoodId])),
      Damaged(JsonDict([created_at |-> GoodTime])),
      Damaged(JsonDict([created_at |-> JsonInt, id |-> GoodId])),
      Damaged(JsonDict([created_at |-> JsonNone, id |-> GoodId])),
      Damaged(JsonDict([created_at |-> GoodTime, id |-> JsonInt])),
      Damaged(JsonDict([created_at |-> GoodTime, id |-> JsonNone])),
      Damaged(JsonDict([created_at |-> JsonStr(<<"x">>), id |-> GoodId])),
      Damaged(JsonDict([created_at |-> GoodTime, id |-> JsonStr(<<"z", "z">>)])) }

\* The tokens the server has issued or could issue
IssuedTokens == {encode_cursor(t, a) : t \in 0..MaxTime, a \in PageAppIds}

ListApplicationsAfter ==
    \E user \in Users, limit \in 1..MAX_PAGE_SIZE :
    \E cursor \in {NoCursor} \cup IssuedTokens \cup MalformedTokens :
        LET r == list_applications(db, user, limit, cursor)
        IN Respond([db |-> db],
                   Listing("applications", user, NULL, limit, cursor, r))

NextCursor ==
    \/ PageCreateApplication
    \/ ListApplicationsAfter
    \/ Deliver
    \/ Tick

SpecCursor == Init /\ [][NextCursor]_vars

----------------------------------------------------------------------------
(* The periodic scan: src/background/tasks/reminders.py and celery_app.py *)

EngineUsers == {"A"}

\* Stored timezone names, one of them unknown to the zone database
TimezoneNames ==
    {"Africa/Lagos", "Europe/London", "America/New_York", "Mars/Olympus"}

QuietHours == {NULL} \cup (0..(DayTicks - 1))

SettingsRows == {UserSettings(start, end) : start, end \in QuietHours}

Quiet == last = NoRequest /\ engine.scan = NoScan

\* The owner's user_settings row is inserted (one row per user:
\* uq_user_settings_user_id) and the timezone chosen with it.
StoreSettings ==
    /\ Quiet
    /\ \A u \in EngineUsers : ~engine.users[u].settings.exists
    /\ \E user \in EngineUsers, tz \in TimezoneNames, settings \in SettingsRows :
         engine' = [engine EXCEPT !.users[user] = User(tz, settings)]
    /\ UNCHANGED <<db, now, last, sessions, pager, auth>>

EngineTick ==
    /\ Quiet
    /\ now < MaxScanTime
    /\ now' = now + 1
    /\ UNCHANGED <<db, last, sessions, pager, engine, auth>>

EngineCreateApplication ==
    /\ engine.scan = NoScan
    /\ CreateApplicationFrom(EngineUsers, {Empty}, AppIds)

EnginePayloads ==
    {[due_at |-> 1, application_id |-> 1, channels |-> <<EMAIL>>]}

\* Reminder ids are handed out in increasing order.
NextRemIds ==
    {r \in ScanRemIds : \A q \in ScanRemIds : q < r => q \in DOMAIN db.reminders}

EngineCreateReminder ==
    /\ engine.scan = NoScan
    /\ CreateReminderFrom(EngineUsers, EnginePayloads, NextRemIds)

Delivered(mail) ==
    [r \in ScanRemIds |-> engine.outbox[r] + IF r \in mail THEN 1 ELSE 0]

Scanned(batch, p, committed) ==
    [at |-> now, batch |-> batch, result |-> p.result, mail |-> p.mail,
     committed |-> committed, before |-> db]

\* scan_due_reminders: _run_scan opens a session and runs
\* process_due_reminders, whose commit succeeds.
Scan ==
    /\ Quiet
    /\ \E batch \in Batches(get_due_reminders(db, now)) :
         LET p == process_due_reminders(db.reminders, engine.users, now, batch)
         IN /\ db' = flush(db, db.reminders, p.rows)
            /\ engine' = [engine EXCEPT !.scan = Scanned(batch, p, TRUE),
                                        !.outbox = Delivered(p.mail)]
    /\ UNCHANGED <<now, last, sessions, pager, auth>>

\* The task returns.
ScanReported ==
    /\ engine.scan # NoScan
    /\ engine' = [engine EXCEPT !.scan = NoScan]
    /\ UNCHANGED <<db, now, last, sessions, pager, auth>>

NextEngine ==
    \/ EngineCreateApplication
    \/ EngineCreateReminder
    \/ StoreSettings
    \/ EngineTick
    \/ Scan
    \/ ScanReported
    \/ Deliver

SpecEngine == Init /\ [][NextEngine]_vars

----------------------------------------------------------------------------
(* A scan whose commit fails, and the next tick's scan *)

\* process_due_reminders runs its loop, handing off the emails, and
\* session.commit() raises: the session context rolls back and the task
\* fails; nothing is written.
ScanFails ==
    /\ Quiet
    /\ engine.failures < MaxFailures
    /\ \E batch \in Batches(get_due_reminders(db, now)) :
         /\ batch # {}
         /\ LET p == process_due_reminders(db.reminders, engine.users, now, batch)
            IN engine' = [engine EXCEPT !.scan = Scanned(batch, p, FALSE),
                                        !.outbox = Delivered(p.mail),
                                        !.failures = @ + 1]
    /\ UNCHANGED <<db, now, last, sessions, pager, auth>>

NextRetry ==
    \/ EngineCreateApplication
    \/ EngineCreateReminder
    \/ EngineTick
    \/ Scan
    \/ ScanFails
    \/ ScanReported
    \/ Deliver

SpecRetry == Init /\ [][NextRetry]_vars

----------------------------------------------------------------------------
(* Two scans overlapping in time, each in a worker of its own *)

\* current_time is read and get_due_reminders returns the batch.
ScanLoad(w) ==
    /\ Quiet
    /\ engine.workers[w].pc = "idle"
    /\ \A v \in Workers : v < w => engine.workers[v].pc = "loaded"
    /\ \E batch \in Batches(get_due_reminders(db, now)) :
         /\ batch # {}
         /\ engine' = [engine EXCEPT !.workers[w] =
                          [pc |-> "loaded", at |-> now, batch |-> batch,
                           rows |-> [r \in batch |-> db.reminders[r]]]]
    /\ UNCHANGED <<db, now, last, sessions, pager, auth>>

\* The loop over the loaded rows, the email handoffs and the commit.  When
\* a processed row is gone the flush raises (the UPDATE matches no row), the
\* session context rolls back and nothing is written.
ScanFinish(w) ==
    /\ Quiet
    /\ engine.workers[w].pc = "loaded"
    /\ LET p == process_due_reminders(engine.workers[w].rows, engine.users,
                                      engine.workers[w].at,
                                      engine.workers[w].batch)
       IN /\ db' = IF stale(db, p.rows) THEN db
                   ELSE flush(db, engine.workers[w].rows, p.rows)
          /\ engine' = [engine EXCEPT
                           !.workers[w] = IdleWorker,
                           !.outbox = Delivered(p.mail),
                           !.failures = IF stale(db, p.rows) THEN @ + 1 ELSE @,
                           !.scan = [at |-> engine.workers[w].at,
                                     batch |-> engine.workers[w].batch,
                                     result |-> p.result, mail |-> p.mail,
                                     committed |-> ~stale(db, p.rows),
                                     before |-> db]]
    /\ UNCHANGED <<now, last, sessions, pager, auth>>

NextScans ==
    \/ EngineCreateApplication
    \/ EngineCreateReminder
    \/ EngineTick
    \/ \E w \in Workers : ScanLoad(w)
    \/ \E w \in Workers : ScanFinish(w)
    \/ ScanReported
    \/ Deliver

SpecScans == Init /\ [][NextScans]_vars

----------------------------------------------------------------------------
(* A scan in flight while the owner edits or deletes its reminders *)

\* The owner moves due_at past the last instant of the clock.
EditPatches == {[due_at |-> MaxTime + 1]}

EditReminder ==
    /\ engine.scan = NoScan
    /\ \E user \in EngineUsers, id \in ScanRemIds, update_data \in EditPatches,
          if_match \in {_set_etag(v) : v \in 1..MaxVersion} :
         LET h == reminders_update(db, user, id, update_data, if_match, now)
         IN Respond(h, Request("update", "reminders", user, id, NULL,
                               if_match, update_data, h))

\* The owner deletes a reminder that is still pending, until MaxFailures
\* commits of a scan have failed.
RemoveReminder ==
    /\ engine.scan = NoScan
    /\ engine.failures < MaxFailures
    /\ \E user \in EngineUsers, id \in ScanRemIds,
          if_match \in {_set_etag(v) : v \in 1..MaxVersion} :
         LET h == reminders_delete(db, user, id, if_match)
         IN /\ id \in DOMAIN db.reminders => ~db.reminders[id].sent
            /\ Respond(h, Request("delete", "reminders", user, id, NULL,
                                  if_match, Empty, h))

NextEdits ==
    \/ EngineCreateApplication
    \/ EngineCreateReminder
    \/ Tick
    \/ EditReminder
    \/ RemoveReminder
    \/ \E w \in Workers : ScanLoad(w)
    \/ \E w \in Workers : ScanFinish(w)
    \/ ScanReported
    \/ Deliver

SpecEdits == Init /\ [][NextEdits]_vars

----------------------------------------------------------------------------
(* Scans without end: the beat schedule triggers scan_due_reminders every
   REMINDER_SCAN_INTERVAL_SECONDS, while reminders are dispatched, deleted by
   their owner and new ones created *)

LivePayloads == {[due_at |-> 1, application_id |-> 1]}

LiveCreateReminder ==
    /\ engine.scan = NoScan
    /\ CreateReminderFrom(EngineUsers, LivePayloads, ScanRemIds)

\* The owner deletes a reminder that was dispatched.
DeleteSent ==
    /\ engine.scan = NoScan
    /\ \E user \in EngineUsers, id \in DOMAIN db.reminders :
         LET h == reminders_delete(db, user, id,
                                   _set_etag(db.reminders[id].version))
         IN /\ db.reminders[id].sent
            /\ Respond(h, Request("delete", "reminders", user, id, NULL,
                                  _set_etag(db.reminders[id].version),
                                  Empty, h))

\* The owner's quiet-hours window: one within the day, one past midnight.
LiveSettings == {UserSettings(1, DayTicks - 1), UserSettings(DayTicks - 1, 1)}

LiveStoreSettings ==
    /\ Quiet
    /\ \A u \in EngineUsers : ~engine.users[u].settings.exists
    /\ \E user \in EngineUsers, tz \in ZoneNames, settings \in LiveSettings :
         engine' = [engine EXCEPT !.users[user] = User(tz, settings)]
    /\ UNCHANGED <<db, now, last, sessions, pager, auth>>

NextLive ==
    \/ EngineCreateApplication
    \/ LiveCreateReminder
    \/ LiveStoreSettings
    \/ EngineTick
    \/ Scan
    \/ ScanReported
    \/ DeleteSent
    \/ Deliver

\* A task that was started returns, time passes and responses leave the
\* server.  (That the beat keeps triggering scans is a premise of the
\* property, not of the specification.)
SpecLive ==
    /\ Init /\ [][NextLive]_vars
    /\ WF_vars(ScanReported) /\ WF_vars(EngineTick) /\ WF_vars(Deliver)

----------------------------------------------------------------------------
(* Reminders with every channel list the API accepts, and their dispatch *)

\* list[ReminderChannel]: any tags in any order, repeated or none at all
ChannelLists ==
    {<<>>}
    \cup {<<c>> : c \in {IN_APP, EMAIL, CALENDAR}}
    \cup {<<c, d>> : c, d \in {IN_APP, EMAIL, CALENDAR}}

ChannelPayloads ==
    {[due_at |-> 1, application_id |-> 1, channels |-> c] : c \in ChannelLists}

ChannelsCreateReminder ==
    /\ engine.scan = NoScan
    /\ CreateReminderFrom(EngineUsers, ChannelPayloads, NextRemIds)

NextChannels ==
    \/ EngineCreateApplication
    \/ ChannelsCreateReminder
    \/ Tick
    \/ Scan
    \/ ScanReported
    \/ Deliver

SpecChannels == Init /\ [][NextChannels]_vars

----------------------------------------------------------------------------
(* Precondition tokens a client may send: application writes with issued,
   foreign-looking and malformed If-Match values *)

MaxToken == 12

\* non-numeric, empty and negative after the W/ prefix and the quotes
MalformedIfMatch ==
    { <<"W", "/", "x">>,
      <<"W", "/", "\"", "\"">>,
      <<"W", "/", "\"", "-", "1", "\"">>,
      <<"W", "/", "\"", "1", "x", "\"">>,
      <<"\"", "\"">>,
      <<"-", "2">> }

TokenValues ==
    {None} \cup MalformedIfMatch \cup {_set_etag(v) : v \in 0..MaxVersion}
    \cup { <<"2">>, <<"W", "/", "\"", "+", "1", "\"">>,
           <<"W", "/", "\"", "1", "_", "0", "\"">> }

TokenUpdateApplication ==
    \E user \in Users, id \in AppIds, update_data \in ApplicationPatches,
       if_match \in TokenValues :
        LET h == applications_update(db, user, id, update_data, if_match, now)
        IN Respond(h, Request("update", "applications", user, id, NULL,
                              if_match, update_data, h))

TokenDeleteApplication ==
    \E user \in Users, id \in AppIds, if_match \in TokenValues :
        LET h == applications_delete(db, user, id, if_match)
        IN Respond(h, Request("delete", "applications", user, id, NULL,
                              if_match, Empty, h))

NextTokens ==
    \/ CreateApplication
    \/ TokenUpdateApplication
    \/ TokenDeleteApplication
    \/ Tick
    \/ Deliver

SpecTokens == Init /\ [][NextTokens]_vars

----------------------------------------------------------------------------
(* Verification codes requested and verified; a verify request is suspended
   at its awaits: after the select and checks, before the update *)

RequestVerificationCode ==
    /\ Len(auth.codes) < MaxCodes
    /\ \E user \in Users, code_value \in CodeValues :
          auth' = [auth EXCEPT !.codes =
                      request_verification_code(@, user, code_value, now)]
    /\ UNCHANGED <<db, now, last, sessions, pager, engine>>

VerifyLoad(v) ==
    /\ auth.verifies[v].pc = "idle"
    /\ \E code_value \in CodeValues :
          auth' = [auth EXCEPT !.verifies[v] =
                      verify_check(auth.codes, code_value, now)]
    /\ UNCHANGED <<db, now, last, sessions, pager, engine>>

VerifyCommit(v) ==
    /\ auth.verifies[v].pc = "checked"
    /\ LET w == auth.verifies[v]
       IN auth' = [auth EXCEPT
                      !.codes = mark_used(@, w.token, w.at),
                      !.verifies[v] =
                          [w EXCEPT !.pc = "done",
                                    !.resp = Ok(200, "users",
                                                auth.codes[w.token].user_id,
                                                NULL)]]
    /\ UNCHANGED <<db, now, last, sessions, pager, engine>>

VerifyDelivered(v) ==
    /\ auth.verifies[v].pc = "done"
    /\ auth' = [auth EXCEPT !.verifies[v] = IdleVerify]
    /\ UNCHANGED <<db, now, last, sessions, pager, engine>>

NextVerify ==
    \/ RequestVerificationCode
    \/ EngineTick
    \/ \E v \in VerifyIds : VerifyLoad(v)
    \/ \E v \in VerifyIds : VerifyCommit(v)
    \/ \E v \in VerifyIds : VerifyDelivered(v)

SpecVerify == Init /\ [][NextVerify]_vars

----------------------------------------------------------------------------
(* Properties of the request handlers, over the request being answered *)

IsWrite == last.op \in {"update", "delete"}

OnEntity == last.op \in {"get", "update", "delete"}

\* The target row as the request met it
Existed == OnEntity /\ last.id \in DOMAIN last.before[last.kind]

TargetBefore == last.before[last.kind][last.id]

Owned == Existed /\ TargetBefore.user_id = last.caller

\* ... addressed under its parent application, through the activities router
Addressed ==
    /\ Owned
    /\ last.kind = "activities" =>
         TargetBefore.application_id = last.application_id

Expected == ParseIfMatch(last.kind, last.if_match)

Unchanged == db = last.before

Patched == WithPayload(TargetBefore, last.data)

Acceptable == RowOk(last.before, last.kind, Patched)

\* The handler a request is routed to
Answer(d, r, t) ==
    IF r.kind = "applications" THEN
        IF r.op = "get" THEN applications_get(d, r.caller, r.id)
        ELSE IF r.op = "update"
        THEN applications_update(d, r.caller, r.id, r.data, r.if_match, t)
        ELSE applications_delete(d, r.caller, r.id, r.if_match)
    ELSE IF r.kind = "activities" THEN
        IF r.op = "get"
        THEN activities_get(d, r.caller, r.application_id, r.id)
        ELSE IF r.op = "update"
        THEN activities_update(d, r.caller, r.application_id, r.id, r.data,
                               r.if_match, t)
        ELSE activities_delete(d, r.caller, r.application_id, r.id, r.if_match)
    ELSE
        IF r.op = "get" THEN reminders_get(d, r.caller, r.id)
        ELSE IF r.op = "update"
        THEN reminders_update(d, r.caller, r.id, r.data, r.if_match, t)
        ELSE reminders_delete(d, r.caller, r.id, r.if_match)

\* C1 as stated: for every application, activity and reminder and EVERY
\* non-empty patch, an update by the owner whose expected version equals the
\* current version succeeds and leaves the version at current + 1; any other
\* expected version fails with VersionConflict (409) and changes nothing.
C1_EveryPatchSucceeds ==
    (last.op = "update" /\ Owned /\ last.data # Empty /\ Expected.ok) =>
        IF Expected.value = TargetBefore.version
        THEN /\ last.svc.status = 200
             /\ db[last.kind][last.id].version = TargetBefore.version + 1
        ELSE /\ last.svc.status = 409
             /\ Unchanged

\* C1 amended: the same for every non-empty patch whose resulting row
\* satisfies the storage constraints (success, version = current + 1, the
\* patched fields stored); a patch whose result violates a constraint fails
\* and changes nothing; any other expected version fails with VersionConflict
\* carrying the current version and changes nothing.
C1_VersionedUpdate ==
    (last.op = "update" /\ Owned /\ last.data # Empty /\ Expected.ok) =>
        IF Expected.value # TargetBefore.version
        THEN /\ last.svc.status = 409
             /\ last.svc.current_version = TargetBefore.version
             /\ Unchanged
        ELSE IF Acceptable
        THEN /\ last.svc.status = 200
             /\ db[last.kind][last.id].version = TargetBefore.version + 1
             /\ \A f \in DOMAIN last.data :
                    db[last.kind][last.id][f] = last.data[f]
        ELSE /\ last.svc.status >= 400
             /\ Unchanged

C1_Witness ==
    /\ last.op = "update" /\ Owned /\ last.data # Empty
    /\ last.svc.status = 200
    /\ db[last.kind][last.id].version = 2

\* C4: an update or delete without a precondition token fails with 400
\* "If-Match header is required." and changes nothing, whatever the current
\* version: every update and every application delete, and every activity or
\* reminder delete that addresses the caller's entity; the entity can still
\* be deleted afterwards with the token of its current version.
C4_MissingTokenRejected ==
    (IsWrite /\ last.if_match = None
       /\ (last.op = "update" \/ last.kind = "applications" \/ Addressed)) =>
        /\ last.resp.status = 400
        /\ last.resp.detail = "If-Match header is required."
        /\ Unchanged
        /\ Addressed =>
             Answer(db, [last EXCEPT !.op = "delete",
                                     !.if_match = _set_etag(TargetBefore.version)],
                    now).resp.status = 204

C4_Witness ==
    /\ IsWrite /\ last.if_match = None /\ Addressed
    /\ last.resp.status = 400
    /\ TargetBefore.version = 2

\* C5: a delete by the owner whose expected version equals the current
\* version removes the entity; while an id has no entity, every get and every
\* update or delete carrying a well-formed token yields NotFound; a delete
\* with any other expected version yields VersionConflict reporting the
\* current version and changes nothing.
C5_DeleteProtocol ==
    /\ (last.op = "delete" /\ Addressed /\ Expected.ok) =>
          IF Expected.value = TargetBefore.version
          THEN /\ last.resp.status = 204
               /\ last.id \notin DOMAIN db[last.kind]
          ELSE /\ last.resp.status = 409
               /\ last.resp.current_version = TargetBefore.version
               /\ Unchanged
    /\ (OnEntity /\ ~Existed /\ (last.op = "get" \/ Expected.ok)) =>
          /\ last.resp.status = 404
          /\ Unchanged

C5_Witness ==
    /\ last.op = "delete" /\ Addressed
    /\ last.resp.status = 204
    /\ last.id \notin DOMAIN db[last.kind]
    /\ TargetBefore.version = 2

\* C6: a get, update or delete of a row of another owner is answered exactly
\* as if no row had that id: never with that row's version, with NotFound
\* whenever a well-formed token (or none, for get) is supplied, and without
\* changing anything; a list returns rows of the caller only.
C6_NoExistenceLeak ==
    /\ (Existed /\ ~Owned) =>
          /\ last.resp =
               Answer(CascadeDelete(last.before, last.kind, last.id),
                      last, now).resp
          /\ last.resp.status # 409
          /\ (last.op = "get" \/ Expected.ok) => last.resp.status = 404
          /\ Unchanged
    /\ last.op = "list" =>
          \A i \in 1..Len(last.items) :
              last.before[last.kind][last.items[i]].user_id = last.caller

C6_Witness ==
    /\ last.op = "update" /\ Existed /\ ~Owned
    /\ Expected.ok /\ Expected.value = TargetBefore.version
    /\ last.resp.status = 404

\* C7: a create, update or delete that ends in an error leaves the database
\* exactly as it was.
C7_AllOrNothing ==
    (last.op \in {"create", "update", "delete"} /\ last.resp.status >= 400) =>
        Unchanged

\* C8: an update with an empty change set still checks the version (a stale
\* one yields VersionConflict); when the version matches it succeeds, changes
\* neither version nor modification timestamp nor any field, and the same
\* token passes the version check again.
C8_EmptyPatch ==
    (last.op = "update" /\ Owned /\ last.data = Empty /\ Expected.ok) =>
        IF Expected.value # TargetBefore.version
        THEN /\ last.svc.status = 409
             /\ Unchanged
        ELSE /\ last.svc.status = 200
             /\ Unchanged
             /\ check_version(db, last.kind, last.caller, last.id,
                              last.if_match).resp.status = 200

C8_Witness ==
    /\ last.op = "update" /\ Owned /\ last.data = Empty
    /\ last.svc.status = 200
    /\ TargetBefore.updated_at < now
    /\ TargetBefore.version = 2

\* C2: a write succeeds only on the version it expected: an update or delete
\* whose expected version differs from the version stored when it commits
\* fails with VersionConflict and changes nothing, and none succeeds on an
\* entity that is gone; so of the writers carrying one expected version at
\* most one succeeds and no committed change is overwritten unseen.
C2_OneWinnerPerVersion ==
    /\ (IsWrite /\ Owned /\ Expected.ok
          /\ Expected.value # TargetBefore.version) =>
            /\ last.resp.status >= 400
            /\ (last.op = "update" \/ Addressed) => last.resp.status = 409
            /\ Unchanged
    /\ (IsWrite /\ ~Existed) => last.resp.status >= 400

\* C3: a created entity has version 1, a committed update leaves the version
\* at exactly one more than the version stored before it, and no other
\* request changes the version of an entity that stays.
C3_VersionCountsWrites ==
    /\ (last.op = "create" /\ last.resp.status = 201) =>
          db[last.kind][last.id].version = 1
    /\ (last.op = "update" /\ last.svc.status = 200 /\ last.data # Empty) =>
          /\ Existed
          /\ db[last.kind][last.id].version = TargetBefore.version + 1
    /\ last.op # "none" =>
          \A kind \in Kinds :
            \A id \in DOMAIN db[kind] \cap DOMAIN last.before[kind] :
              \/ db[kind][id].version = last.before[kind][id].version
              \/ /\ last.op = "update" /\ kind = last.kind /\ id = last.id
                 /\ db[kind][id].version = last.before[kind][id].version + 1

Range(seq) == {seq[i] : i \in 1..Len(seq)}

\* seq lists ids in (created_at descending, id descending) order, none twice
Descending(seq) ==
    \A i \in 1..Len(seq) : \A j \in 1..Len(seq) :
        i < j => AppBefore(db, seq[i], seq[j])

\* C9: while the owner's set of applications is the one paging began with,
\* the pages fetched so far are a prefix of that set in (created_at
\* descending, id descending) order, and when the chain ends they are the
\* whole set: every application of the owner exactly once and none of
\* another owner, for every limit in 1..MAX_PAGE_SIZE.
C9_PagesCoverOwner ==
    (pager.active /\ OwnerIds(db, pager.user) = pager.start) =>
        LET all == SortBy(pager.start, AppOrder(db))
        IN /\ Len(pager.seen) <= Len(all)
           /\ pager.seen = SubSeq(all, 1, Len(pager.seen))
           /\ pager.done => pager.seen = all

C9_Witness ==
    /\ pager.active /\ pager.done /\ pager.limit = 1
    /\ OwnerIds(db, pager.user) = pager.start
    /\ Len(pager.seen) = 3
    /\ OwnerIds(db, pager.user) # DOMAIN db.applications
    /\ \E x \in pager.start : \E y \in pager.start :
         x # y /\ db.applications[x].created_at = db.applications[y].created_at

\* C10: whatever is created between page fetches, the pages fetched so far
\* hold no application twice, hold only the owner's applications and are in
\* (created_at descending, id descending) order, and when the chain ends
\* every application that existed when paging began has been returned.
C10_StableUnderInserts ==
    pager.active =>
        /\ \A i \in 1..Len(pager.seen) : \A j \in 1..Len(pager.seen) :
              i # j => pager.seen[i] # pager.seen[j]
        /\ Range(pager.seen) \subseteq OwnerIds(db, pager.user)
        /\ Descending(pager.seen)
        /\ pager.done => pager.start \subseteq Range(pager.seen)

C10_Witness ==
    /\ pager.active /\ pager.done
    /\ pager.known # pager.start
    /\ Len(pager.seen) >= 2
    /\ pager.start \subseteq Range(pager.seen)
    /\ \E x \in pager.known \ pager.start : \E y \in pager.start :
         db.applications[x].created_at = db.applications[y].created_at

----------------------------------------------------------------------------
(* Cursor codec *)

ListedAfter == last.op = "list" /\ last.kind = "applications"

CursorOf(d, a) == encode_cursor(d.applications[a].created_at, a)

\* The caller's rows strictly after row a in (created_at desc, id desc)
RowsAfter(d, user, a) ==
    {b \in DOMAIN d.applications :
        /\ d.applications[b].user_id = user
        /\ <<a, b>> \in AppOrder(d)}

\* C11: decoding the cursor encoded from any stored application gives back
\* its (created_at, id), and a list request carrying the cursor of a stored
\* row returns the caller's rows strictly after that row, in listing order.
C11_CursorRoundTrip ==
    /\ \A a \in DOMAIN db.applications :
         decode_cursor(CursorOf(db, a)) =
           Decoded(db.applications[a].created_at, a)
    /\ \A a \in DOMAIN last.before.applications :
         (ListedAfter /\ last.cursor = CursorOf(last.before, a)) =>
            /\ last.resp.status = 200
            /\ last.items =
                 Take(SortBy(RowsAfter(last.before, last.caller, a),
                             AppOrder(last.before)), last.limit)

C11_Witness ==
    /\ ListedAfter
    /\ \E a \in DOMAIN last.before.applications :
         /\ last.cursor = CursorOf(last.before, a)
         /\ last.before.applications[a].user_id = last.caller
         /\ \E b \in DOMAIN last.before.applications :
              /\ last.before.applications[b].user_id = last.caller
              /\ <<b, a>> \in AppOrder(last.before)
    /\ Len(last.items) >= 2

\* C12: a list request whose cursor is not a well-formed encoding is always
\* answered with the invalid-cursor 400, never with a server error.
C12_MalformedCursorRejected ==
    (ListedAfter /\ last.cursor \in MalformedTokens) =>
        last.resp = InvalidRequestError("Invalid cursor value.")

----------------------------------------------------------------------------
(* Reminder rows *)

\* C15: every stored reminder has sent false exactly when sent_at is null
\* (and sent true exactly when sent_at is set).
C15_SentIffSentAt ==
    \A r \in DOMAIN db.reminders :
        db.reminders[r].sent <=> (db.reminders[r].sent_at # NULL)

\* The reminder a create request asks for
Requested == WithPayload(Reminder(last.caller, now), NonNull(last.data))

\* C16: every stored reminder references an application or an activity; a
\* create with neither reference, and an update passing the version check
\* that would clear both, is answered with InvalidRequest (400) and stores
\* nothing.
C16_ReferenceRequired ==
    /\ \A r \in DOMAIN db.reminders :
         ck_reminders_application_or_activity(db.reminders[r])
    /\ (/\ last.kind = "reminders" /\ last.op = "create"
        /\ ~ck_reminders_application_or_activity(Requested)) =>
            (last.resp.status = 400 /\ Unchanged)
    /\ (/\ last.kind = "reminders" /\ last.op = "update" /\ Owned
        /\ Expected.ok /\ Expected.value = TargetBefore.version
        /\ ~ck_reminders_application_or_activity(Patched)) =>
            (last.resp.status = 400 /\ Unchanged)

NoDangling(d) ==
    /\ \A a \in DOMAIN d.activities :
         d.activities[a].application_id \in DOMAIN d.applications
    /\ \A r \in DOMAIN d.reminders :
         /\ d.reminders[r].application_id # NULL =>
              d.reminders[r].application_id \in DOMAIN d.applications
         /\ d.reminders[r].activity_id # NULL =>
              d.reminders[r].activity_id \in DOMAIN d.activities

Deleted(kind) ==
    last.op = "delete" /\ last.kind = kind /\ last.resp.status = 204

\* C17: no activity references a missing application and no reminder a
\* missing application or activity; a successful delete of an application
\* removes it with the activities and reminders that referenced it, and a
\* successful delete of an activity removes it with the reminders that
\* referenced it.
C17_CascadingDelete ==
    /\ NoDangling(db)
    /\ Deleted("applications") =>
         /\ last.id \notin DOMAIN db.applications
         /\ \A a \in DOMAIN last.before.activities :
              last.before.activities[a].application_id = last.id =>
                 a \notin DOMAIN db.activities
         /\ \A r \in DOMAIN last.before.reminders :
              last.before.reminders[r].application_id = last.id =>
                 r \notin DOMAIN db.reminders
    /\ Deleted("activities") =>
         /\ last.id \notin DOMAIN db.activities
         /\ \A r \in DOMAIN last.before.reminders :
              last.before.reminders[r].activity_id = last.id =>
                 r \notin DOMAIN db.reminders

C17_Witness ==
    /\ Deleted("applications")
    /\ \E a \in DOMAIN last.before.activities :
         last.before.activities[a].application_id = last.id
    /\ \E r \in DOMAIN last.before.reminders :
         /\ last.before.reminders[r].application_id = last.id
         /\ last.before.reminders[r].activity_id = NULL
    /\ db = EmptyDb

----------------------------------------------------------------------------
(* Owners *)

\* C22: the request being answered, invoked with owner id A, has created,
\* changed or deleted no application, activity or reminder owned by another
\* user: every row of another owner is as the request met it (also when the
\* application or activity it references is deleted) and every new row is
\* the caller's.
C22_OwnerIsolation ==
    last # NoRequest =>
        \A kind \in Kinds :
            /\ \A id \in DOMAIN last.before[kind] :
                  last.before[kind][id].user_id # last.caller =>
                     /\ id \in DOMAIN db[kind]
                     /\ db[kind][id] = last.before[kind][id]
            /\ \A id \in DOMAIN db[kind] \ DOMAIN last.before[kind] :
                  db[kind][id].user_id = last.caller

----------------------------------------------------------------------------
(* Properties of a scan, over the scan being reported *)

ScanDone == engine.scan # NoScan

\* The reminder as the scan met it, and its owner
RowBefore(r) == engine.scan.before.reminders[r]

OwnerOf(r) == engine.users[RowBefore(r).user_id]

DueBefore(r) ==
    /\ r \in DOMAIN engine.scan.before.reminders
    /\ RowBefore(r).due_at <= engine.scan.at
    /\ ~RowBefore(r).sent

NoWindow(user) ==
    \/ ~user.settings.exists
    \/ user.settings.quiet_hours_start = NULL
    \/ user.settings.quiet_hours_end = NULL

\* The scan's counts are the reminders of its batch it sent and deferred
Counted ==
    /\ engine.scan.result.sent =
          Cardinality({q \in engine.scan.batch : db.reminders[q].sent})
    /\ engine.scan.result.deferred =
          Cardinality({q \in engine.scan.batch : ~db.reminders[q].sent})

DispatchedBy(r) ==
    /\ db.reminders[r].sent
    /\ db.reminders[r].sent_at = engine.scan.at
    /\ db.reminders[r].version = RowBefore(r).version + 1
    /\ Counted

\* C13 as stated: a scan dispatches EVERY due, unsent reminder whose owner
\* has no quiet-hours window (sent, sent_at = now, version + 1, counted as
\* sent); a reminder already sent is left alone by every later scan.
C13_EveryDueDispatched ==
    ScanDone =>
        \A r \in DOMAIN engine.scan.before.reminders :
            /\ (DueBefore(r) /\ NoWindow(OwnerOf(r))) => DispatchedBy(r)
            /\ RowBefore(r).sent =>
                 /\ r \notin engine.scan.batch
                 /\ r \notin engine.scan.mail
                 /\ db.reminders[r] = RowBefore(r)

\* C13 amended: a scan dispatches every due, unsent reminder IN ITS BATCH
\* whose owner has no quiet-hours window (sent, sent_at = now, version + 1,
\* counted as sent); a reminder already sent is no candidate of any later
\* scan, is not dispatched again and keeps its version, sent_at and metadata.
C13_BatchDispatchedOnce ==
    ScanDone =>
        \A r \in DOMAIN engine.scan.before.reminders :
            /\ (DueBefore(r) /\ r \in engine.scan.batch /\ NoWindow(OwnerOf(r)))
                  => DispatchedBy(r)
            /\ RowBefore(r).sent =>
                 /\ r \notin engine.scan.batch
                 /\ r \notin engine.scan.mail
                 /\ db.reminders[r] = RowBefore(r)

C13_Witness ==
    /\ ScanDone
    /\ \E r \in engine.scan.batch :
         /\ NoWindow(OwnerOf(r))
         /\ DispatchedBy(r)
         /\ r \in engine.scan.mail
    /\ \E r \in DOMAIN engine.scan.before.reminders :
         /\ RowBefore(r).sent
         /\ RowBefore(r).sent_at < engine.scan.at
         /\ engine.outbox[r] = 1

\* The owner's wall-clock time of day at instant t
LocalTime(user, t) == time_of(astimezone(t, _resolve_timezone(user.timezone)))

\* The owner has a window and the local time of t lies in it
InsideWindow(user, t) ==
    /\ ~NoWindow(user)
    /\ user.settings.quiet_hours_start # user.settings.quiet_hours_end
    /\ IF user.settings.quiet_hours_start < user.settings.quiet_hours_end
       THEN /\ user.settings.quiet_hours_start <= LocalTime(user, t)
            /\ LocalTime(user, t) < user.settings.quiet_hours_end
       ELSE \/ LocalTime(user, t) >= user.settings.quiet_hours_start
            \/ LocalTime(user, t) < user.settings.quiet_hours_end

\* The first instant after t at which the owner's local time is the window end
WindowEnd(user, t) ==
    CHOOSE u \in (t + 1)..(t + 2 * DayTicks + 2) :
        /\ LocalTime(user, u) = user.settings.quiet_hours_end
        /\ \A v \in (t + 1)..(u - 1) :
              LocalTime(user, v) # user.settings.quiet_hours_end

DeferredBy(r) ==
    /\ ~db.reminders[r].sent
    /\ db.reminders[r].sent_at = RowBefore(r).sent_at
    /\ db.reminders[r].meta = RowBefore(r).meta
    /\ db.reminders[r].version = RowBefore(r).version + 1
    /\ db.reminders[r].due_at > engine.scan.at
    /\ r \notin engine.scan.mail
    /\ Counted

\* C14: a reminder processed by a scan while its owner's local time is inside
\* the owner's quiet-hours window is not dispatched: due_at becomes the first
\* instant after now at which the owner's local time is the window end, the
\* version grows by one, sent stays false, sent_at stays null, no email is
\* handed off and the scan counts it as deferred.
C14_DeferredToWindowEnd ==
    ScanDone =>
        \A r \in engine.scan.batch :
            InsideWindow(OwnerOf(r), engine.scan.at) =>
                /\ DeferredBy(r)
                /\ db.reminders[r].sent_at = NULL
                /\ db.reminders[r].due_at =
                      WindowEnd(OwnerOf(r), engine.scan.at)

\* C18: a reminder in a scan's batch is deferred if and only if its owner has
\* both bounds set, start # end and the owner's local time of now is inside
\* the window (wrapping past midnight when start > end); in every other case
\* it is dispatched in that scan.
C18_DeferredIffInsideWindow ==
    ScanDone =>
        \A r \in engine.scan.batch :
            IF InsideWindow(OwnerOf(r), engine.scan.at)
            THEN DeferredBy(r)
            ELSE DispatchedBy(r)

\* C19: with scans whose commit may fail and that are retried on a later
\* tick, the email of a reminder is handed off at most once, and only by a
\* scan that commits the reminder as sent.
C19_EmailOnlyWithCommittedDispatch ==
    /\ \A r \in ScanRemIds : engine.outbox[r] <= 1
    /\ ScanDone =>
         \A r \in engine.scan.mail :
            engine.scan.committed /\ db.reminders[r].sent

\* C20: when two scans overlap, each due reminder is dispatched by at most
\* one of them: its email is handed off at most once and its version grows
\* by one for the dispatch.
C20_OneScanDispatches ==
    \A r \in DOMAIN db.reminders :
        /\ engine.outbox[r] <= 1
        /\ db.reminders[r].sent => db.reminders[r].version = 2

\* The reminder in the state the scan's commit is applied to
UnsentAndDue(r) ==
    /\ r \in DOMAIN engine.scan.before.reminders
    /\ ~RowBefore(r).sent
    /\ RowBefore(r).due_at <= engine.scan.at

\* C21: a scan running concurrently with an API update or delete of a
\* reminder marks it sent, or defers it, only if the reminder is unsent with
\* due_at <= now in the state the scan's commit is applied to; what an API
\* edit committed since the scan's read (its due_at, its version) is neither
\* ignored nor overwritten.
C21_ScanHonoursCommittedEdit ==
    ScanDone =>
        \A r \in engine.scan.batch \cap DOMAIN db.reminders :
            db.reminders[r] # RowBefore(r) =>
                /\ UnsentAndDue(r)
                /\ db.reminders[r].version = RowBefore(r).version + 1

----------------------------------------------------------------------------
(* Every due reminder is dispatched in the end *)

Pending(r) ==
    /\ r \in DOMAIN db.reminders
    /\ ~db.reminders[r].sent
    /\ db.reminders[r].due_at <= now

Dispatched(r) == r \in DOMAIN db.reminders /\ db.reminders[r].sent

\* A scan that ran while no owner was inside a quiet-hours window
OutsideScan ==
    /\ ScanDone
    /\ engine.scan.committed
    /\ \A u \in EngineUsers : ~InsideWindow(engine.users[u], engine.scan.at)

\* No more reminders are due than one batch holds
WithinBatch ==
    Cardinality(get_due_reminders(db, now)) <= REMINDER_DISPATCH_BATCH_SIZE

\* The scans the claim counts on: run outside the quiet-hours window, with
\* a commit that succeeds, at or after the due time the reminder carries
\* (the clock of the model stops at MaxScanTime)
ScanFor(r) ==
    /\ OutsideScan
    /\ r \in DOMAIN engine.scan.before.reminders =>
          (RowBefore(r).sent \/ RowBefore(r).due_at <= engine.scan.at)

----------------------------------------------------------------------------
(* The instant a reminder is deferred to *)

\* The scan being reported rescheduled r
Rescheduled(r) ==
    /\ r \in DOMAIN db.reminders
    /\ ~db.reminders[r].sent
    /\ db.reminders[r].due_at # RowBefore(r).due_at

\* r had been rescheduled before, by a scan at updated_at
RescheduledBefore(r) == RowBefore(r).version > 1

\* C24: the instant a scan defers a reminder to is strictly after now and
\* outside the owner's quiet-hours window (half-open at its end), so that a
\* scan at exactly that instant dispatches the reminder; and a reminder
\* deferred for the second time was outside the window at some instant since
\* the first deferral.
C24_DeferredPastWindow ==
    ScanDone =>
        \A r \in engine.scan.batch :
            Rescheduled(r) =>
                /\ db.reminders[r].due_at > engine.scan.at
                /\ ~InsideWindow(OwnerOf(r), db.reminders[r].due_at)
                /\ ~deferring(OwnerOf(r), db.reminders[r].due_at)
                /\ RescheduledBefore(r) =>
                     \E u \in RowBefore(r).updated_at..engine.scan.at :
                        ~InsideWindow(OwnerOf(r), u)

----------------------------------------------------------------------------
(* Channels of a dispatch *)

\* The recognised tags of a channel list
Recognised(channels) ==
    {channels[i] : i \in DOMAIN channels} \cap {IN_APP, EMAIL, CALENDAR}

\* The tags the dispatch of r recorded
Recorded(r) == db.reminders[r].meta.dispatched_channels

\* C25: the channel tags a dispatch records in the reminder's metadata are
\* free of duplicates and are exactly the recognised tags of the reminder's
\* channel list, or in_app alone when the list has none; whatever the
\* channels, the dispatch goes through (the reminder is sent and the scan
\* commits).
C25_RecordedChannelsAreASet ==
    ScanDone =>
        \A r \in engine.scan.batch :
            /\ engine.scan.committed
            /\ db.reminders[r].sent
            /\ \A i, j \in DOMAIN Recorded(r) :
                  Recorded(r)[i] = Recorded(r)[j] => i = j
            /\ {Recorded(r)[i] : i \in DOMAIN Recorded(r)} =
                  IF Recognised(RowBefore(r).channels) = {} THEN {IN_APP}
                  ELSE Recognised(RowBefore(r).channels)

----------------------------------------------------------------------------
(* What one scan changes and reports *)

\* The reminders the scan being reported changed, marked sent, rescheduled
Transitioned ==
    {r \in DOMAIN engine.scan.before.reminders :
        r \notin DOMAIN db.reminders \/ db.reminders[r] # RowBefore(r)}

MarkedSent ==
    {r \in DOMAIN db.reminders : db.reminders[r].sent /\ ~RowBefore(r).sent}

Postponed ==
    {r \in DOMAIN db.reminders :
        ~db.reminders[r].sent /\ db.reminders[r].due_at # RowBefore(r).due_at}

\* C26: a scan transitions at most REMINDER_DISPATCH_BATCH_SIZE reminders
\* (the setting being positive), its sent and deferred counts are the
\* numbers of reminders it marked sent and rescheduled, and every reminder
\* outside its batch (not due, already sent, or beyond the cap) is exactly
\* as it was.
C26_ScanWithinBatch ==
    ScanDone =>
        /\ DOMAIN db.reminders = DOMAIN engine.scan.before.reminders
        /\ REMINDER_DISPATCH_BATCH_SIZE > 0 =>
              Cardinality(Transitioned) <= REMINDER_DISPATCH_BATCH_SIZE
        /\ engine.scan.result.sent = Cardinality(MarkedSent)
        /\ engine.scan.result.deferred = Cardinality(Postponed)
        /\ \A r \in DOMAIN db.reminders :
              (~DueBefore(r) \/ r \notin engine.scan.batch) =>
                 db.reminders[r] = RowBefore(r)

\* More reminders were due than the cap: one was deferred, one left alone.
C26_Witness ==
    /\ ScanDone
    /\ Cardinality({r \in DOMAIN db.reminders : DueBefore(r)}) >
          REMINDER_DISPATCH_BATCH_SIZE
    /\ Cardinality(Postponed) = REMINDER_DISPATCH_BATCH_SIZE
    /\ engine.scan.result = ReminderProcessingResult(0, Cardinality(Postponed))
    /\ \E r \in DOMAIN db.reminders :
          DueBefore(r) /\ db.reminders[r] = RowBefore(r)

----------------------------------------------------------------------------
(* Pages of the applications list *)

LastItem == last.items[Len(last.items)]

\* C27: a page of list_applications holds at most limit items; next_cursor
\* is set exactly when a further row of the caller follows the last item
\* returned (a result ending on a full page ends with a null cursor), and
\* then encodes that last item.
C27_NextCursorIffMore ==
    (ListedAfter /\ last.resp.status = 200) =>
        /\ Len(last.items) <= last.limit
        /\ (last.next_cursor # NoCursor) <=>
              /\ last.items # <<>>
              /\ RowsAfter(last.before, last.caller, LastItem) # {}
        /\ last.next_cursor # NoCursor =>
              last.next_cursor = CursorOf(last.before, LastItem)

\* A page after a cursor that is full and the last one
C27_Witness ==
    /\ ListedAfter /\ last.resp.status = 200
    /\ last.cursor \in IssuedTokens
    /\ Len(last.items) = last.limit
    /\ last.limit > 1
    /\ last.next_cursor = NoCursor
    /\ \E a \in DOMAIN last.before.applications :
          last.before.applications[a].user_id # last.caller

----------------------------------------------------------------------------
(* Precondition tokens *)

Parsed(v) == [ok |-> TRUE, value |-> v, detail |-> ""]

ApplicationWrite == IsWrite /\ last.kind = "applications"

Issued ==
    /\ last.kind = "applications" /\ last.op \in {"create", "update"}
    /\ last.resp.status \in {200, 201}

----------------------------------------------------------------------------
(* Tokens of a deleted application *)

ApplicationDeleted ==
    /\ last.op = "delete" /\ last.kind = "applications"
    /\ last.resp.status = 204

\* POST /applications by the former owner with the id of the deleted row
Recreated ==
    applications_create(db, last.caller, [id |-> last.id], last.id, now)

WriteWith(d, op, v) ==
    Answer(d, [last EXCEPT !.op = op, !.if_match = _set_etag(v),
                           !.data = Empty], now)

\* C29: once an application is deleted, an update or delete carrying a token
\* of one of its versions is answered 404 or 409, also after an application
\* has been created again under the same caller-supplied id.
C29_DeletedTokenNeverAccepted ==
    ApplicationDeleted =>
        \A v \in 1..TargetBefore.version, op \in {"update", "delete"} :
            /\ WriteWith(db, op, v).resp.status \in {404, 409}
            /\ Recreated.resp.status = 201 =>
                  WriteWith(Recreated.db, op, v).resp.status \in {404, 409}

----------------------------------------------------------------------------
(* Verification codes *)

Verified(v) == auth.verifies[v].pc = "done" /\ auth.verifies[v].resp.status = 200

\* C30: a verification code authenticates at most once: no two verify
\* requests are answered 200 for the same code row, and a request that read
\* the row after it was marked used is answered 400; a request made after the
\* row's expires_at is never answered 200.
C30_CodeVerifiesOnce ==
    /\ \A v, w \in VerifyIds :
          (v # w /\ Verified(v) /\ Verified(w)) =>
              auth.verifies[v].token # auth.verifies[w].token
    /\ \A v \in VerifyIds :
          Verified(v) =>
              auth.codes[auth.verifies[v].token].expires_at >= auth.verifies[v].at

====
